---- MODULE Spec2Model ----
(***************************************************************************)
(* A model of lemosyne/sdbtree: the encrypted key-versioning B-tree        *)
(* (src/src/lib.rs, src/src/node.rs, src/src/utils.rs) over the directory  *)
(* object store (src/storage/src/dir.rs).                                  *)
(*                                                                         *)
(* Block ids, node ids and keys are naturals.  A key drawn from the RNG is *)
(* the next value of the counter rng, so RNG keys are pairwise distinct    *)
(* and distinct from the values a caller passes in (1 .. MaxVal).          *)
(* Indices are 0-based as in the source; At(s, i) reads s[i].              *)
(***************************************************************************)
EXTENDS Integers, Sequences, FiniteSets, TLC

\* ------------------------------------------------------------------ bounds
MaxBlock == 4
MaxVal == 2
MaxId == 16
MaxLen == 14
MaxRng == 40
MaxCalls == 7
BuiltLen == 3
TallLen == 10
TallCalls == 4

DEFAULT_DEGREE == 2

\* The blocks a tree may hold, and the ones the caller's calls name.
Blocks == 0 .. (TallLen - 1)
CallerBlocks == 0 .. (MaxBlock - 1)
CallerVals == 1 .. MaxVal
Ids == 0 .. MaxId
\* What a read through a dangling key pointer may yield besides a stored key.
GarbageKey == TallLen

\* Option<T>: None is the empty sequence, Some(x) the one-element sequence.
None == << >>
Some(x) == << x >>

\* ----------------------------------------------------------- Vec helpers
At(s, i) == s[i + 1]

\* Vec::insert(i, x), for i <= len
VecInsert(s, i, x) == SubSeq(s, 1, i) \o << x >> \o SubSeq(s, i + 1, Len(s))

\* Vec::remove(i), for i < len
VecRemove(s, i) == SubSeq(s, 1, i) \o SubSeq(s, i + 2, Len(s))

\* the vector left by drain(from..), and the drained elements
VecKeep(s, from) == SubSeq(s, 1, from)
VecDrain(s, from) == SubSeq(s, from + 1, Len(s))

VecPop(s) == SubSeq(s, 1, Len(s) - 1)
VecLast(s) == s[Len(s)]

VecSet(s, i, x) == [s EXCEPT ![i + 1] = x]

Range(s) == { s[i] : i \in 1 .. Len(s) }

\* Only({ e : x \in {v} }) is e with x standing for the value v.
Only(S) == CHOOSE x \in S : TRUE

Max2(a, b) == IF a >= b THEN a ELSE b

\* ------------------------------------------------------------- the state
VARIABLES
    root,               \* BKeyTree.root: the hydrated root Node
    len,                \* BKeyTree.len
    degree,             \* BKeyTree.degree
    updated,            \* BKeyTree.updated: set of node ids
    updated_blocks,     \* BKeyTree.updated_blocks: set of block ids
    in_flight_blocks,   \* BKeyTree.in_flight_blocks: block id -> key
    cached_keys,        \* BKeyTree.cached_keys: block id -> key
    meta_id,            \* BKeyTree.meta_id
    storage,            \* the objects of the store: id -> file
    next_id,            \* the store's sequential allocator
    freed,              \* ids handed to dealloc_id
    rng,                \* the RNG: the last key drawn
    status,             \* "ok", or "panic" once a call has panicked
    last,               \* the last public call: its name, argument and
                        \* result, and the allocator position it found
    shadow,             \* reference map: block id -> value of the latest
                        \* completed insert (0: none, or removed since)
    pristine,           \* the tree was built by calls alone, never loaded
    calls,              \* how many of its MaxCalls calls the caller has
                        \* made
    persisted,          \* what the tree was at the last persist
    other,              \* the objects of a second store, for persist_to
    exported,           \* what the tree was at the last persist_to
    epoch               \* the keys handed out since the last commit:
                        \* derived[b] by the first derive(b) or update(b) of
                        \* the present run of derive and update calls,
                        \* updated[b] by the latest update(b); n is the
                        \* length of that run

vars == << root, len, degree, updated, updated_blocks, in_flight_blocks,
           cached_keys, meta_id, storage, next_id, freed, rng, status, last,
           shadow, pristine, calls, persisted, other, exported, epoch >>

\* ------------------------------------------------------------------ Node
\* Node::new
NodeNew(id) ==
    [id |-> id, keys |-> << >>, vals |-> << >>, children |-> << >>,
     children_keys |-> << >>]

\* enum Child
Loaded(n) == [tag |-> "Loaded", node |-> n]
Unloaded(id) == [tag |-> "Unloaded", id |-> id]

ChildId(c) == IF c.tag = "Loaded" THEN c.node.id ELSE c.id

NodeLen(n) == Len(n.keys)
NodeIsEmpty(n) == Len(n.keys) = 0
NodeIsFull(n) == Len(n.keys) = 2 * degree - 1
NodeIsLeaf(n) == Len(n.children) = 0

\* ------------------------------------------------- framing (src/utils.rs)
\* A vector is framed as its count followed by its elements.
serialize_ids(ids) == << Len(ids) >> \o ids

deserialize_ids(raw) ==
    IF raw[1] = 0 THEN << >> ELSE [i \in 1 .. raw[1] |-> raw[i + 1]]

serialize_keys(keys) == << Len(keys) >> \o keys

deserialize_keys(raw) ==
    IF raw[1] = 0 THEN << >> ELSE [i \in 1 .. raw[1] |-> raw[i + 1]]

\* One-time encryption of a framed field under key: decrypting under
\* another key does not give the plaintext back.
onetime_encrypt(key, bytes) == [k |-> key, data |-> bytes]
DecryptsUnder(key, ct) == ct.k = key
onetime_decrypt(key, ct) == ct.data

\* --------------------------------------------------------------- storage
NoFile == [kind |-> "none"]

FileExists(files, id) == id \in DOMAIN files /\ files[id].kind # "none"

\* Node::load.  st is "ok", "err" (read_handle fails: no such object) or
\* "panic" (the bytes do not decrypt to a framed node under key).
NodeLoad(files, id, key) ==
    IF ~FileExists(files, id)
    THEN [st |-> "err", node |-> NodeNew(id)]
    ELSE LET f == files[id] IN
         IF f.kind # "node" \/ ~DecryptsUnder(key, f.keys)
         THEN [st |-> "panic", node |-> NodeNew(id)]
         ELSE [st |-> "ok",
               node |->
                 [id |-> id,
                  keys |-> deserialize_ids(onetime_decrypt(key, f.keys)),
                  vals |-> deserialize_keys(onetime_decrypt(key, f.vals)),
                  children |->
                    LET ids == deserialize_ids(onetime_decrypt(key, f.children))
                    IN  [i \in 1 .. Len(ids) |-> Unloaded(ids[i])],
                  children_keys |->
                    deserialize_keys(onetime_decrypt(key, f.children_keys))]]

\* The children loop of Node::persist writing no child.
NodePersistNoChildren(files, n, i) == files

\* Node::persist: the Loaded children first, each under the key its parent
\* holds for it, then the node itself under key.  The object is rewritten
\* from offset 0 without truncation: the trailing bytes of the object (the
\* meta id persist_meta appended) stay.
RECURSIVE NodePersistChildren(_, _, _)
RECURSIVE NodePersist(_, _, _)
NodePersist(files, n, key) ==
    LET fs == NodePersistChildren(files, n, 1)
        tail == IF FileExists(fs, n.id) /\ fs[n.id].kind = "node"
                THEN fs[n.id].tail ELSE None
    IN  [fs EXCEPT ![n.id] =
           [kind |-> "node",
            keys |-> onetime_encrypt(key, serialize_ids(n.keys)),
            vals |-> onetime_encrypt(key, serialize_keys(n.vals)),
            children |->
              onetime_encrypt(key,
                serialize_ids([i \in 1 .. Len(n.children) |->
                                 ChildId(n.children[i])])),
            children_keys |->
              onetime_encrypt(key, serialize_keys(n.children_keys)),
            tail |-> tail]]

NodePersistChildren(files, n, i) ==
    IF i > Len(n.children) THEN files
    ELSE IF n.children[i].tag = "Loaded"
         THEN LET fs == NodePersist(files, n.children[i].node,
                                    n.children_keys[i])
              IN  NodePersistChildren(fs, n, i + 1)
         ELSE NodePersistChildren(files, n, i + 1)

\* Node::find_index: the binary search of the source.
RECURSIVE FindIndexLoop(_, _, _, _, _)
FindIndexLoop(keys, k, size, left, right) ==
    IF ~(left < right) THEN left
    ELSE LET mid == left + (size \div 2) IN
         IF At(keys, mid) = k THEN mid
         ELSE IF At(keys, mid) < k
              THEN FindIndexLoop(keys, k, right - (mid + 1), mid + 1, right)
              ELSE FindIndexLoop(keys, k, mid - left, left, mid)

find_index(n, k) == FindIndexLoop(n.keys, k, Len(n.keys), 0, Len(n.keys))

\* Node::access_child: hydrate children[idx] under children_keys[idx].
access_child(n, idx) ==
    IF At(n.children, idx).tag = "Loaded"
    THEN [st |-> "ok", node |-> n]
    ELSE IF idx >= Len(n.children_keys)
         THEN [st |-> "panic", node |-> n]
         ELSE Only({ IF r.st = "ok"
                     THEN [st |-> "ok",
                           node |-> [n EXCEPT !.children =
                                       VecSet(n.children, idx, Loaded(r.node))]]
                     ELSE [st |-> r.st, node |-> n]
                     : r \in { NodeLoad(storage, At(n.children, idx).id,
                                        At(n.children_keys, idx)) } })

ChildNode(n, idx) == At(n.children, idx).node

SetChild(n, idx, c) == [n EXCEPT !.children = VecSet(n.children, idx, Loaded(c))]

\* Node::get: st, the node after the hydrations of the descent, and the
\* (key, value) found, if any.
RECURSIVE NodeGet(_, _)
RECURSIVE NodeGetChild(_, _, _)
NodeGet(n, k) ==
    Only({ IF idx < NodeLen(n) /\ At(n.keys, idx) = k
           THEN [st |-> "ok", node |-> n,
                 res |-> Some(<< At(n.keys, idx), At(n.vals, idx) >>)]
           ELSE IF NodeIsLeaf(n)
           THEN [st |-> "ok", node |-> n, res |-> None]
           ELSE NodeGetChild(n, k, idx)
           : idx \in { find_index(n, k) } })

\* The descent of Node::get into children[idx].
NodeGetChild(n, k, idx) ==
    Only({ IF a.st # "ok" THEN [st |-> a.st, node |-> a.node, res |-> None]
           ELSE Only({ [st |-> r.st, node |-> SetChild(a.node, idx, r.node),
                        res |-> r.res]
                       : r \in { NodeGet(ChildNode(a.node, idx), k) } })
           : a \in { access_child(n, idx) } })

\* split_child without the pop of the median from the left node.
SplitChildKeepsMedian(n, idx, for_update, c) ==
    IF NodeIsFull(n)
    THEN [st |-> "assert", node |-> n, updated |-> c.updated,
          next_id |-> c.next_id, rng |-> c.rng]
    ELSE
    LET left == ChildNode(n, idx)
        right_id == c.next_id
        right_key == c.rng + 1
        key == At(left.keys, degree - 1)
        val == At(left.vals, degree - 1)
        right == [id |-> right_id,
                  keys |-> VecDrain(left.keys, degree),
                  vals |-> VecDrain(left.vals, degree),
                  children |-> IF NodeIsLeaf(left) THEN << >>
                               ELSE VecDrain(left.children, degree),
                  children_keys |-> IF NodeIsLeaf(left) THEN << >>
                                    ELSE VecDrain(left.children_keys, degree)]
        left2 == [left EXCEPT
                    !.keys = VecKeep(left.keys, degree),
                    !.vals = VecKeep(left.vals, degree),
                    !.children = IF NodeIsLeaf(left) THEN << >>
                                 ELSE VecKeep(left.children, degree),
                    !.children_keys = IF NodeIsLeaf(left) THEN << >>
                                      ELSE VecKeep(left.children_keys, degree)]
        upd == IF for_update
               THEN c.updated \cup {n.id, left.id, right_id}
               ELSE c.updated
        n2 == [n EXCEPT
                 !.keys = VecInsert(n.keys, idx, key),
                 !.vals = VecInsert(n.vals, idx, val),
                 !.children = VecInsert(VecSet(n.children, idx, Loaded(left2)),
                                        idx + 1, Loaded(right))]
    IN  IF idx + 1 > Len(n.children_keys)
        THEN [st |-> "panic", node |-> n2, updated |-> upd,
              next_id |-> c.next_id + 1, rng |-> right_key]
        ELSE [st |-> "ok",
              node |-> [n2 EXCEPT !.children_keys =
                          VecInsert(n.children_keys, idx + 1, right_key)],
              updated |-> upd, next_id |-> c.next_id + 1, rng |-> right_key]

\* ----------------------------------------------------------------- insert
\* Node::split_child.  c carries updated, next_id (the allocator) and rng.
\* Vec::insert panics when the index exceeds the length: children_keys of a
\* parent that holds no key for children[idx] is one element short.
split_child(n, idx, for_update, c) ==
    IF NodeIsFull(n)
    THEN [st |-> "assert", node |-> n, updated |-> c.updated,
          next_id |-> c.next_id, rng |-> c.rng]
    ELSE
    LET left == ChildNode(n, idx)
        right_id == c.next_id
        right_key == c.rng + 1
        key == At(left.keys, degree - 1)
        val == At(left.vals, degree - 1)
        right == [id |-> right_id,
                  keys |-> VecDrain(left.keys, degree),
                  vals |-> VecDrain(left.vals, degree),
                  children |-> IF NodeIsLeaf(left) THEN << >>
                               ELSE VecDrain(left.children, degree),
                  children_keys |-> IF NodeIsLeaf(left) THEN << >>
                                    ELSE VecDrain(left.children_keys, degree)]
        left2 == [left EXCEPT
                    !.keys = VecPop(VecKeep(left.keys, degree)),
                    !.vals = VecPop(VecKeep(left.vals, degree)),
                    !.children = IF NodeIsLeaf(left) THEN << >>
                                 ELSE VecKeep(left.children, degree),
                    !.children_keys = IF NodeIsLeaf(left) THEN << >>
                                      ELSE VecKeep(left.children_keys, degree)]
        upd == IF for_update
               THEN c.updated \cup {n.id, left.id, right_id}
               ELSE c.updated
        n2 == [n EXCEPT
                 !.keys = VecInsert(n.keys, idx, key),
                 !.vals = VecInsert(n.vals, idx, val),
                 !.children = VecInsert(VecSet(n.children, idx, Loaded(left2)),
                                        idx + 1, Loaded(right))]
    IN  IF idx + 1 > Len(n.children_keys)
        THEN [st |-> "panic", node |-> n2, updated |-> upd,
              next_id |-> c.next_id + 1, rng |-> right_key]
        ELSE [st |-> "ok",
              node |-> [n2 EXCEPT !.children_keys =
                          VecInsert(n.children_keys, idx + 1, right_key)],
              updated |-> upd, next_id |-> c.next_id + 1, rng |-> right_key]

\* The loop of Node::insert_nonfull, one iteration per level.
RECURSIVE InsertLoop(_, _, _, _, _)
RECURSIVE InsertDescend(_, _, _, _, _, _, _)
InsertFail(st, node, cc) ==
    [st |-> st, node |-> node, res |-> None, updated |-> cc.updated,
     next_id |-> cc.next_id, rng |-> cc.rng]

\* The leaf branch: replace the value of k, or insert (k, v) at idx.
InsertLeaf(n, k, v, idx, c) ==
    IF idx < NodeLen(n) /\ k = At(n.keys, idx)
    THEN [st |-> "ok",
          node |-> [n EXCEPT !.vals = VecSet(n.vals, idx, v)],
          res |-> Some(At(n.vals, idx)), updated |-> c.updated,
          next_id |-> c.next_id, rng |-> c.rng]
    ELSE [st |-> "ok",
          node |-> [n EXCEPT !.keys = VecInsert(n.keys, idx, k),
                             !.vals = VecInsert(n.vals, idx, v)],
          res |-> None, updated |-> c.updated,
          next_id |-> c.next_id, rng |-> c.rng]

\* InsertSplit with the full child pushed down under a node of its own
\* instead of being split into n.
InsertSplitDown(n, k, idx, for_update, c) ==
    IF NodeIsFull(ChildNode(n, idx))
    THEN Only({ [st |-> g.st, node |-> SetChild(n, idx, g.node),
                 updated |-> g.updated, next_id |-> g.next_id,
                 rng |-> g.rng, idx |-> idx]
                : g \in { split_child(
                            [NodeNew(c.next_id) EXCEPT
                               !.children = << At(n.children, idx) >>,
                               !.children_keys = << c.rng + 1 >>],
                            0, for_update,
                            [c EXCEPT !.next_id = c.next_id + 1,
                                      !.rng = c.rng + 1]) } })
    ELSE [st |-> "ok", node |-> n, updated |-> c.updated,
          next_id |-> c.next_id, rng |-> c.rng, idx |-> idx]

\* InsertSplit that splits without marking the nodes of the split.
InsertSplitUnmarked(n, k, idx, for_update, c) ==
    IF NodeIsFull(ChildNode(n, idx))
    THEN Only({ [s EXCEPT !.idx =
                   IF s.st = "ok" /\ At(s.node.keys, idx) < k
                   THEN idx + 1 ELSE idx]
                : s \in { [idx |-> idx] @@ split_child(n, idx, FALSE, c) } })
    ELSE [st |-> "ok", node |-> n, updated |-> c.updated,
          next_id |-> c.next_id, rng |-> c.rng, idx |-> idx]

\* The internal branch once children[idx] is loaded: split it when full,
\* and pick the side to go down.
InsertSplit(n, k, idx, for_update, c) ==
    IF NodeIsFull(ChildNode(n, idx))
    THEN Only({ [s EXCEPT !.idx =
                   IF s.st = "ok" /\ At(s.node.keys, idx) < k
                   THEN idx + 1 ELSE idx]
                : s \in { [idx |-> idx] @@ split_child(n, idx, for_update, c) } })
    ELSE [st |-> "ok", node |-> n, updated |-> c.updated,
          next_id |-> c.next_id, rng |-> c.rng, idx |-> idx]

InsertDescend(n, k, v, idx, for_update, c, a) ==
    IF a.st # "ok" THEN InsertFail(a.st, a.node, c)
    ELSE Only({
      IF s.st # "ok" THEN InsertFail(s.st, s.node, s)
      ELSE Only({
        IF a2.st # "ok" THEN InsertFail(a2.st, a2.node, s)
        ELSE Only({ [r EXCEPT !.node = SetChild(a2.node, s.idx, r.node)]
                    : r \in { InsertLoop(ChildNode(a2.node, s.idx), k, v,
                                         for_update,
                                         [updated |-> s.updated,
                                          next_id |-> s.next_id,
                                          rng |-> s.rng]) } })
        : a2 \in { access_child(s.node, s.idx) } })
      : s \in { InsertSplit(a.node, k, idx, for_update, c) } })

InsertLoop(n, k, v, for_update, c) ==
    Only({ IF NodeIsLeaf(n) THEN InsertLeaf(n, k, v, idx, c1)
           ELSE Only({ InsertDescend(n, k, v, idx, for_update, c1, a)
                       : a \in { access_child(n, idx) } })
           : idx \in { find_index(n, k) },
             c1 \in { [c EXCEPT !.updated = IF for_update
                                             THEN c.updated \cup {n.id}
                                             ELSE c.updated] } })

\* Node::insert_nonfull
insert_nonfull(n, k, v, for_update, c) ==
    IF NodeIsFull(n)
    THEN [st |-> "assert", node |-> n, res |-> None, updated |-> c.updated,
          next_id |-> c.next_id, rng |-> c.rng]
    ELSE InsertLoop(n, k, v, for_update, c)

\* ----------------------------------------------------------------- remove
\* The key argument of Node::remove is a reference.  A caller's reference
\* (leaf = -1) always reads v.  In cases 2a and 2b the reference is a raw
\* pointer into the keys buffer of the leaf max_key / min_key ended in
\* (leaf, slot): what it reads after that buffer has been changed depends
\* on whether the change moved the buffer.
KeyRef(v) == [v |-> v, leaf |-> -1, slot |-> 0]

\* The outcomes of a read through the pointer after its buffer has changed:
\* the buffer stayed in place, it moved and the old bytes are intact, or it
\* moved (or was freed) and the old bytes were reused.
UBOutcomes == {"inplace", "stale", "garbage"}

\* The reference after the node `id` changed its keys to `keys`.  kind is
\* "grow" (insert, push, append: the buffer may move), "shrink" (remove,
\* pop: in place) or "free" (the node was dropped).
Touch(kr, id, keys, kind, ub) ==
    IF kr.leaf # id THEN kr
    ELSE LET here == IF kr.slot < Len(keys) THEN At(keys, kr.slot) ELSE kr.v
         IN  IF kind = "shrink" THEN [kr EXCEPT !.v = here]
             ELSE IF ub = "garbage" THEN [kr EXCEPT !.v = GarbageKey]
             ELSE IF kind = "grow" /\ ub = "inplace" THEN [kr EXCEPT !.v = here]
             ELSE kr

\* The last key of n, as a reference into n.
LastKeyRef(n) ==
    IF NodeIsEmpty(n)
    THEN [st |-> "panic", node |-> n, ref |-> KeyRef(0)]
    ELSE [st |-> "ok", node |-> n,
          ref |-> [v |-> VecLast(n.keys), leaf |-> n.id,
                   slot |-> Len(n.keys) - 1]]

\* The first key of n, as a reference into n.
FirstKeyRef(n) ==
    IF NodeIsEmpty(n)
    THEN [st |-> "panic", node |-> n, ref |-> KeyRef(0)]
    ELSE [st |-> "ok", node |-> n,
          ref |-> [v |-> At(n.keys, 0), leaf |-> n.id, slot |-> 0]]

\* Node::max_key: the node after the hydrations, and the reference to the
\* last key of the node the descent ended in.
RECURSIVE max_key(_)
max_key(n) ==
    IF NodeIsLeaf(n) THEN LastKeyRef(n)
    ELSE Only({
           IF a.st # "ok"
           THEN [st |-> a.st, node |-> a.node, ref |-> KeyRef(0)]
           ELSE IF NodeIsEmpty(ChildNode(a.node, Len(n.children) - 1))
           THEN [LastKeyRef(n) EXCEPT !.node = a.node]
           ELSE Only({ [r EXCEPT !.node =
                          SetChild(a.node, Len(n.children) - 1, r.node)]
                       : r \in { max_key(ChildNode(a.node,
                                                   Len(n.children) - 1)) } })
           : a \in { access_child(n, Len(n.children) - 1) } })

\* Node::min_key
RECURSIVE min_key(_)
min_key(n) ==
    IF NodeIsLeaf(n) THEN FirstKeyRef(n)
    ELSE Only({
           IF a.st # "ok"
           THEN [st |-> a.st, node |-> a.node, ref |-> KeyRef(0)]
           ELSE IF NodeIsEmpty(ChildNode(a.node, 0))
           THEN [FirstKeyRef(n) EXCEPT !.node = a.node]
           ELSE Only({ [r EXCEPT !.node = SetChild(a.node, 0, r.node)]
                       : r \in { min_key(ChildNode(a.node, 0)) } })
           : a \in { access_child(n, 0) } })

\* Case 3a of Node::remove, left sibling: p is the parent, children idx-1
\* and idx are Loaded.
BorrowLeft(p, idx, kr, upd, ub) ==
    LET mid == ChildNode(p, idx)
        left == ChildNode(p, idx - 1)
        mid1 == [mid EXCEPT
                   !.keys = VecInsert(mid.keys, 0, At(p.keys, idx - 1)),
                   !.vals = VecInsert(mid.vals, 0, At(p.vals, idx - 1))]
        left1 == [left EXCEPT !.keys = VecPop(left.keys),
                              !.vals = VecPop(left.vals)]
        mid2 == IF NodeIsLeaf(left1) THEN mid1
                ELSE [mid1 EXCEPT
                        !.children = VecInsert(mid1.children, 0,
                                               VecLast(left1.children)),
                        !.children_keys = VecInsert(mid1.children_keys, 0,
                                               VecLast(left1.children_keys))]
        left2 == IF NodeIsLeaf(left1) THEN left1
                 ELSE [left1 EXCEPT
                         !.children = VecPop(left1.children),
                         !.children_keys = VecPop(left1.children_keys)]
        p1 == [p EXCEPT !.keys = VecSet(p.keys, idx - 1, VecLast(left.keys)),
                        !.vals = VecSet(p.vals, idx - 1, VecLast(left.vals))]
    IN  [st |-> "ok",
         node |-> SetChild(SetChild(p1, idx, mid2), idx - 1, left2),
         idx |-> idx,
         kr |-> Touch(Touch(kr, mid.id, mid1.keys, "grow", ub),
                      left.id, left1.keys, "shrink", ub),
         updated |-> upd \cup {mid.id, left.id}]

\* Case 3a of Node::remove, right sibling.
BorrowRight(p, idx, kr, upd, ub) ==
    LET mid == ChildNode(p, idx)
        right == ChildNode(p, idx + 1)
        mid1 == [mid EXCEPT
                   !.keys = Append(mid.keys, At(p.keys, idx)),
                   !.vals = Append(mid.vals, At(p.vals, idx))]
        right1 == [right EXCEPT !.keys = VecRemove(right.keys, 0),
                                !.vals = VecRemove(right.vals, 0)]
        mid2 == IF NodeIsLeaf(right1) THEN mid1
                ELSE [mid1 EXCEPT
                        !.children = Append(mid1.children,
                                            At(right1.children, 0)),
                        !.children_keys = Append(mid1.children_keys,
                                            At(right1.children_keys, 0))]
        right2 == IF NodeIsLeaf(right1) THEN right1
                  ELSE [right1 EXCEPT
                          !.children = VecRemove(right1.children, 0),
                          !.children_keys = VecRemove(right1.children_keys, 0)]
        p1 == [p EXCEPT !.keys = VecSet(p.keys, idx, At(right.keys, 0)),
                        !.vals = VecSet(p.vals, idx, At(right.vals, 0))]
    IN  [st |-> "ok",
         node |-> SetChild(SetChild(p1, idx, mid2), idx + 1, right2),
         idx |-> idx,
         kr |-> Touch(Touch(kr, mid.id, mid1.keys, "grow", ub),
                      right.id, right1.keys, "shrink", ub),
         updated |-> upd \cup {mid.id, right.id}]

\* Case 3b of Node::remove: children[idx] is merged into its left sibling,
\* and dropped; the descent continues at idx - 1.
MergeLeft(p, idx, kr, upd, ub) ==
    LET mid == ChildNode(p, idx)
        left == ChildNode(p, idx - 1)
        left1 == [left EXCEPT
                    !.keys = Append(left.keys, At(p.keys, idx - 1)) \o mid.keys,
                    !.vals = Append(left.vals, At(p.vals, idx - 1)) \o mid.vals,
                    !.children = left.children \o mid.children,
                    !.children_keys = left.children_keys \o mid.children_keys]
        p1 == [p EXCEPT
                 !.keys = VecRemove(p.keys, idx - 1),
                 !.vals = VecRemove(p.vals, idx - 1),
                 !.children = VecRemove(VecSet(p.children, idx - 1,
                                               Loaded(left1)), idx),
                 !.children_keys = VecRemove(p.children_keys, idx)]
    IN  [st |-> "ok", node |-> p1, idx |-> idx - 1,
         kr |-> Touch(Touch(kr, mid.id, << >>, "free", ub),
                      left.id, left1.keys, "grow", ub),
         updated |-> upd \cup {mid.id, left.id}]

\* Case 3b of Node::remove: the right sibling is merged into children[idx],
\* and dropped.
MergeRight(p, idx, kr, upd, ub) ==
    LET mid == ChildNode(p, idx)
        right == ChildNode(p, idx + 1)
        mid1 == [mid EXCEPT
                   !.keys = Append(mid.keys, At(p.keys, idx)) \o right.keys,
                   !.vals = Append(mid.vals, At(p.vals, idx)) \o right.vals,
                   !.children = mid.children \o right.children,
                   !.children_keys = mid.children_keys \o right.children_keys]
        p1 == [p EXCEPT
                 !.keys = VecRemove(p.keys, idx),
                 !.vals = VecRemove(p.vals, idx),
                 !.children = VecRemove(VecSet(p.children, idx, Loaded(mid1)),
                                        idx + 1),
                 !.children_keys = VecRemove(p.children_keys, idx + 1)]
    IN  [st |-> "ok", node |-> p1, idx |-> idx,
         kr |-> Touch(Touch(kr, right.id, << >>, "free", ub),
                      mid.id, mid1.keys, "grow", ub),
         updated |-> upd \cup {right.id, mid.id}]

\* Case 3 of Node::remove up to the final descent: children[idx] is given
\* at least `degree` keys.  The siblings are hydrated in the order the
\* conditions of the source look at them.
RebalanceSame(st, node, idx, kr, upd) ==
    [st |-> st, node |-> node, idx |-> idx, kr |-> kr, updated |-> upd]

\* The right sibling is looked at: aL is the node after the left one was.
RebalanceRight(aL, idx, kr, upd, ub) ==
    IF idx + 1 < Len(aL.children)
    THEN Only({
           IF aR.st # "ok" THEN RebalanceSame(aR.st, aR.node, idx, kr, upd)
           ELSE IF NodeLen(ChildNode(aR.node, idx + 1)) >= degree
           THEN BorrowRight(aR.node, idx, kr, upd, ub)
           ELSE IF idx > 0 THEN MergeLeft(aR.node, idx, kr, upd, ub)
           ELSE MergeRight(aR.node, idx, kr, upd, ub)
           : aR \in { access_child(aL, idx + 1) } })
    ELSE IF idx > 0 THEN MergeLeft(aL, idx, kr, upd, ub)
    ELSE RebalanceSame("ok", aL, idx, kr, upd)

\* The left sibling is looked at: n has children[idx] loaded.
RebalanceLeft(n, idx, kr, upd, ub) ==
    IF idx > 0
    THEN Only({
           IF aL.st # "ok" THEN RebalanceSame(aL.st, aL.node, idx, kr, upd)
           ELSE IF NodeLen(ChildNode(aL.node, idx - 1)) >= degree
           THEN BorrowLeft(aL.node, idx, kr, upd, ub)
           ELSE RebalanceRight(aL.node, idx, kr, upd, ub)
           : aL \in { access_child(n, idx - 1) } })
    ELSE RebalanceRight(n, idx, kr, upd, ub)

\* Rebalance that loads children[idx] and lends it nothing.
RebalanceSkip(n, idx, kr, upd, ub) ==
    Only({ RebalanceSame(a.st, a.node, idx, kr, upd)
           : a \in { access_child(n, idx) } })

Rebalance(n, idx, kr, upd, ub) ==
    Only({ IF a.st # "ok" THEN RebalanceSame(a.st, a.node, idx, kr, upd)
           ELSE IF NodeLen(ChildNode(a.node, idx)) + 1 # degree
           THEN RebalanceSame("ok", a.node, idx, kr, upd)
           ELSE RebalanceLeft(a.node, idx, kr, upd, ub)
           : a \in { access_child(n, idx) } })

\* Node::remove.  c carries updated, freed (the ids deallocated) and ub,
\* the outcome of reads through a pointer whose buffer changed.  res is
\* None or Some(<<key, value>>).
RECURSIVE NodeRemove(_, _, _)
RemoveRet(st, node, res, u, f) ==
    [st |-> st, node |-> node, res |-> res, updated |-> u, freed |-> f]

\* Cases 2a and 2b after max_key / min_key gave m: the key m.ref points at
\* is removed from children[j] and takes the place of keys[idx].
RemoveReplace(n, idx, j, m, c) ==
    IF m.st # "ok"
    THEN RemoveRet(m.st, SetChild(n, j, m.node), None, c.updated, c.freed)
    ELSE Only({
           IF r.st # "ok"
           THEN RemoveRet(r.st, SetChild(n, j, r.node), None, r.updated,
                          r.freed)
           ELSE IF r.res = None
           THEN RemoveRet("panic", SetChild(n, j, r.node), None, r.updated,
                          r.freed)
           ELSE RemoveRet("ok",
                  [n EXCEPT !.children = VecSet(n.children, j, Loaded(r.node)),
                            !.keys = VecSet(n.keys, idx, r.res[1][1]),
                            !.vals = VecSet(n.vals, idx, r.res[1][2])],
                  Some(<< At(n.keys, idx), At(n.vals, idx) >>),
                  r.updated \cup {r.node.id}, r.freed)
           : r \in { NodeRemove(m.node, m.ref, c) } })

\* Case 2c: children[idx + 1] is merged into children[idx] around keys[idx],
\* and dropped; the key is removed from the merged child.
RemoveMerge(p, idx, kr, c) ==
    Only({
      Only({
        LET p1 == [p EXCEPT
                     !.keys = VecRemove(p.keys, idx),
                     !.vals = VecRemove(p.vals, idx),
                     !.children = VecRemove(VecSet(p.children, idx,
                                                   Loaded(pred1)), idx + 1),
                     !.children_keys = VecRemove(p.children_keys, idx + 1)]
        IN
        IF ~NodeIsFull(pred1)
        THEN RemoveRet("assert", p1, None, c.updated, c.freed)
        ELSE Only({ [r EXCEPT !.node = SetChild(p1, idx, r.node)]
                    : r \in { NodeRemove(
                                pred1,
                                Touch(Touch(kr, pred.id, pred1.keys, "grow",
                                            c.ub),
                                      succ.id, << >>, "free", c.ub),
                                [c EXCEPT
                                   !.updated = (c.updated \ {succ.id})
                                               \cup {pred.id},
                                   !.freed = c.freed \cup {succ.id}]) } })
        : pred1 \in { [pred EXCEPT
                         !.keys = Append(pred.keys, At(p.keys, idx))
                                  \o succ.keys,
                         !.vals = Append(pred.vals, At(p.vals, idx))
                                  \o succ.vals,
                         !.children = pred.children \o succ.children,
                         !.children_keys =
                             pred.children_keys \o succ.children_keys] } })
      : succ \in { ChildNode(p, idx + 1) }, pred \in { ChildNode(p, idx) } })

\* Case 2: keys[idx] of the internal node n is the key.
RemoveInternal(n, idx, kr, c) ==
    Only({
      IF a.st # "ok" THEN RemoveRet(a.st, a.node, None, c.updated, c.freed)
      ELSE IF NodeLen(ChildNode(a.node, idx)) >= degree
      THEN \* Case 2a
           Only({ RemoveReplace(a.node, idx, idx, m, c)
                  : m \in { max_key(ChildNode(a.node, idx)) } })
      ELSE Only({
             IF b.st # "ok"
             THEN RemoveRet(b.st, b.node, None, c.updated, c.freed)
             ELSE IF NodeLen(ChildNode(b.node, idx + 1)) >= degree
             THEN \* Case 2b
                  Only({ RemoveReplace(b.node, idx, idx + 1, m, c)
                         : m \in { min_key(ChildNode(b.node, idx + 1)) } })
             ELSE \* Case 2c
                  RemoveMerge(b.node, idx, kr, c)
             : b \in { access_child(a.node, idx + 1) } })
      : a \in { access_child(n, idx) } })

\* Case 3: the key is below children[idx].
RemoveBelow(n, idx, kr, c) ==
    Only({
      IF b.st # "ok" THEN RemoveRet(b.st, b.node, None, b.updated, c.freed)
      ELSE Only({
             IF a.st # "ok"
             THEN RemoveRet(a.st, a.node, None, b.updated, c.freed)
             ELSE Only({ [r EXCEPT !.node = SetChild(a.node, b.idx, r.node)]
                         : r \in { NodeRemove(ChildNode(a.node, b.idx), b.kr,
                                              [c EXCEPT !.updated = b.updated])
                                 } })
             : a \in { access_child(b.node, b.idx) } })
      : b \in { Rebalance(n, idx, kr, c.updated, c.ub) } })

\* Node::remove that does not put the node it is entered on into updated.
NodeRemoveUnmarked(n, kr, c) ==
    Only({
      IF idx < NodeLen(n) /\ At(n.keys, idx) = kr.v
      THEN IF NodeIsLeaf(n)
           THEN RemoveRet("ok", [n EXCEPT !.keys = VecRemove(n.keys, idx),
                                          !.vals = VecRemove(n.vals, idx)],
                          Some(<< At(n.keys, idx), At(n.vals, idx) >>),
                          c.updated, c.freed)
           ELSE RemoveInternal(n, idx, kr, c)
      ELSE IF NodeIsLeaf(n)
           THEN RemoveRet("ok", n, None, c.updated, c.freed)
           ELSE RemoveBelow(n, idx, kr, c)
      : idx \in { find_index(n, kr.v) } })

NodeRemove(n, kr, c) ==
    Only({
      IF idx < NodeLen(n) /\ At(n.keys, idx) = kr.v
      THEN IF NodeIsLeaf(n)
           THEN \* Case 1
                RemoveRet("ok", [n EXCEPT !.keys = VecRemove(n.keys, idx),
                                          !.vals = VecRemove(n.vals, idx)],
                          Some(<< At(n.keys, idx), At(n.vals, idx) >>),
                          c1.updated, c.freed)
           ELSE RemoveInternal(n, idx, kr, c1)
      ELSE IF NodeIsLeaf(n)
           THEN RemoveRet("ok", n, None, c1.updated, c.freed)
           ELSE RemoveBelow(n, idx, kr, c1)
      : idx \in { find_index(n, kr.v) },
        c1 \in { [c EXCEPT !.updated = c.updated \cup {n.id}] } })

\* Node::clear: hydrates and clears every child, then empties the node.
RECURSIVE NodeClearFrom(_, _)
NodeClearFrom(n, i) ==
    IF i >= Len(n.children)
    THEN [st |-> "ok", node |-> NodeNew(n.id)]
    ELSE Only({
           IF a.st # "ok" THEN a
           ELSE Only({ IF r.st # "ok"
                       THEN [st |-> r.st, node |-> SetChild(a.node, i, r.node)]
                       ELSE Only({ NodeClearFrom(n1, i + 1)
                                   : n1 \in { SetChild(a.node, i, r.node) } })
                       : r \in { NodeClearFrom(ChildNode(a.node, i), 0) } })
           : a \in { access_child(n, i) } })

NodeClear(n) == NodeClearFrom(n, 0)

\* Node::commit: a fresh key for every child slot whose id is in upd, in
\* slot order, then the same in every Loaded child.  Gives the node and
\* the RNG afterwards.
RECURSIVE RekeySlotsAll(_, _, _, _)
RekeySlotsAll(n, i, upd, r) ==
    IF i >= Len(n.children) THEN [node |-> n, rng |-> r]
    ELSE Only({ RekeySlotsAll(n1, i + 1, upd, r + 1)
                : n1 \in { [n EXCEPT !.children_keys =
                              VecSet(n.children_keys, i, r + 1)] } })

RECURSIVE RekeySlots(_, _, _, _)
RekeySlots(n, i, upd, r) ==
    IF i >= Len(n.children) THEN [node |-> n, rng |-> r]
    ELSE IF ChildId(At(n.children, i)) \in upd
         THEN Only({ RekeySlots(n1, i + 1, upd, r + 1)
                     : n1 \in { [n EXCEPT !.children_keys =
                                   VecSet(n.children_keys, i, r + 1)] } })
         ELSE RekeySlots(n, i + 1, upd, r)

RECURSIVE NodeCommit(_, _, _)
RECURSIVE CommitChildren(_, _, _, _)
NodeCommit(n, upd, r) ==
    Only({ CommitChildren(s.node, 0, upd, s.rng)
           : s \in { RekeySlots(n, 0, upd, r) } })

CommitChildrenSkip(n, i, upd, r) == [node |-> n, rng |-> r]

CommitChildren(n, i, upd, r) ==
    IF i >= Len(n.children) THEN [node |-> n, rng |-> r]
    ELSE IF At(n.children, i).tag = "Loaded"
         THEN Only({ CommitChildren(SetChild(n, i, c.node), i + 1, upd, c.rng)
                     : c \in { NodeCommit(ChildNode(n, i), upd, r) } })
         ELSE CommitChildren(n, i + 1, upd, r)

\* ------------------------------------------------------------------ tree
\* The fields of BKeyTree a call reads and writes, as one record.
Tree ==
    [root |-> root, len |-> len, updated |-> updated,
     updated_blocks |-> updated_blocks, in_flight_blocks |-> in_flight_blocks,
     cached_keys |-> cached_keys, next_id |-> next_id, freed |-> freed,
     rng |-> rng, st |-> "ok"]

\* A map block id -> key: 0 stands for "no entry" (every key is >= 1).
EmptyMap == [b \in Blocks |-> 0]
MapHas(m, b) == m[b] # 0
MapKeys(m) == { b \in Blocks : m[b] # 0 }
MapPut(m, b, key) == [m EXCEPT ![b] = key]

\* BKeyTree::get / get_key_value: the tree after the hydrations, and the
\* entry found.
TreeGet(t, k) ==
    Only({ [t |-> [t EXCEPT !.root = g.node, !.st = g.st], res |-> g.res]
           : g \in { NodeGet(t.root, k) } })

\* The new root BKeyTree::insert makes when the root is full: the old root
\* is its only child, and no key is pushed for it.
GrowRootUpdate(t) ==
    split_child([NodeNew(t.next_id) EXCEPT !.children = << Loaded(t.root) >>],
                0, TRUE,
                [updated |-> t.updated \cup {t.root.id, t.next_id},
                 next_id |-> t.next_id + 1, rng |-> t.rng])

\* The new root BKeyTree::insert_no_update makes: the old root is its only
\* child, under a key drawn for it.
GrowRootNoUpdate(t) ==
    split_child([NodeNew(t.next_id) EXCEPT
                   !.children = << Loaded(t.root) >>,
                   !.children_keys = << t.rng + 1 >>],
                0, FALSE,
                [updated |-> t.updated, next_id |-> t.next_id + 1,
                 rng |-> t.rng + 1])

\* insert and insert_no_update going down from the root as it is, full or
\* not.
InsertRootKept(t, for_update) ==
    [st |-> "ok", node |-> t.root, updated |-> t.updated,
     next_id |-> t.next_id, rng |-> t.rng]

\* The root BKeyTree::insert and insert_no_update go down from.
InsertRoot(t, for_update) ==
    IF NodeIsFull(t.root)
    THEN IF for_update THEN GrowRootUpdate(t) ELSE GrowRootNoUpdate(t)
    ELSE [st |-> "ok", node |-> t.root, updated |-> t.updated,
          next_id |-> t.next_id, rng |-> t.rng]

\* BKeyTree::insert (for_update) and BKeyTree::insert_no_update.
TreeInsert(t, k, v, for_update) ==
    Only({
      IF g.st # "ok"
      THEN [t |-> [t EXCEPT !.root = g.node, !.updated = g.updated,
                            !.next_id = g.next_id, !.rng = g.rng,
                            !.st = g.st],
            res |-> None]
      ELSE Only({ [t |-> [t EXCEPT !.root = r.node, !.updated = r.updated,
                                   !.next_id = r.next_id, !.rng = r.rng,
                                   !.st = r.st,
                                   !.len = IF r.st = "ok" /\ r.res = None
                                           THEN t.len + 1 ELSE t.len],
                   res |-> r.res]
                  : r \in { insert_nonfull(g.node, k, v, for_update,
                                           [updated |-> g.updated,
                                            next_id |-> g.next_id,
                                            rng |-> g.rng]) } })
      : g \in { InsertRoot(t, for_update) } })

\* The end of BKeyTree::remove_entry: an emptied internal root gives way
\* to its last child.
RemoveShrink(t, r) ==
    IF r.st # "ok" \/ r.res = None
    THEN [t |-> [t EXCEPT !.root = r.node, !.updated = r.updated,
                          !.freed = r.freed, !.st = r.st],
          res |-> None]
    ELSE IF ~NodeIsLeaf(r.node) /\ NodeIsEmpty(r.node)
    THEN IF VecLast(r.node.children).tag # "Loaded"
         THEN [t |-> [t EXCEPT !.root = r.node, !.updated = r.updated,
                               !.freed = r.freed, !.st = "panic"],
               res |-> None]
         ELSE [t |-> [t EXCEPT !.root = VecLast(r.node.children).node,
                               !.updated = r.updated, !.freed = r.freed,
                               !.len = t.len - 1],
               res |-> r.res]
    ELSE [t |-> [t EXCEPT !.root = r.node, !.updated = r.updated,
                          !.freed = r.freed, !.len = t.len - 1],
          res |-> r.res]

\* remove_entry without the contains test in front of Node::remove.
TreeRemoveEntryUnchecked(t, k, ub) ==
    Only({ RemoveShrink(t, r)
           : r \in { NodeRemove(t.root, KeyRef(k),
                                [updated |-> t.updated, freed |-> t.freed,
                                 ub |-> ub]) } })

\* BKeyTree::remove_entry and BKeyTree::remove_entry_no_update: Node::remove
\* has no for_update parameter and marks the nodes in both.
TreeRemoveEntry(t, k, ub) ==
    Only({
      IF g.t.st # "ok" \/ g.res = None THEN [t |-> g.t, res |-> None]
      ELSE Only({ RemoveShrink(g.t, r)
                  : r \in { NodeRemove(g.t.root, KeyRef(k),
                                       [updated |-> t.updated,
                                        freed |-> t.freed, ub |-> ub]) } })
      : g \in { TreeGet(t, k) } })

\* BKeyTree::clear
TreeClear(t) ==
    Only({ IF c.st # "ok"
           THEN [t EXCEPT !.len = 0, !.root = c.node, !.st = c.st]
           ELSE [t EXCEPT !.len = 0, !.root = NodeNew(t.next_id),
                          !.next_id = t.next_id + 1]
           : c \in { NodeClear(t.root) } })

\* derive that neither looks a key up in the memo nor leaves one there.
TreeDeriveNoMemo(t, b) ==
    Only({
      IF g.t.st # "ok" THEN [t |-> g.t, res |-> 0]
      ELSE IF g.res # None THEN [t |-> g.t, res |-> g.res[1][2]]
      ELSE [t |-> [g.t EXCEPT !.rng = t.rng + 1], res |-> t.rng + 1]
      : g \in { TreeGet(t, b) } })

\* KeyManagementScheme::derive
TreeDerive(t, b) ==
    IF MapHas(t.cached_keys, b) THEN [t |-> t, res |-> t.cached_keys[b]]
    ELSE Only({
      IF g.t.st # "ok" THEN [t |-> g.t, res |-> 0]
      ELSE IF g.res # None THEN [t |-> g.t, res |-> g.res[1][2]]
      ELSE IF MapHas(t.in_flight_blocks, b)
      THEN [t |-> g.t, res |-> t.in_flight_blocks[b]]
      ELSE [t |-> [g.t EXCEPT
                     !.rng = t.rng + 1,
                     !.in_flight_blocks =
                         MapPut(t.in_flight_blocks, b, t.rng + 1),
                     !.cached_keys = MapPut(t.cached_keys, b, t.rng + 1)],
            res |-> t.rng + 1]
      : g \in { TreeGet(t, b) } })

\* update that hands out a key of its own.
TreeUpdateFresh(t, b) ==
    Only({ IF d.t.st # "ok" THEN d
           ELSE [t |-> [d.t EXCEPT
                          !.rng = d.t.rng + 1,
                          !.updated_blocks = d.t.updated_blocks \cup {b}],
                 res |-> d.t.rng + 1]
           : d \in { TreeDerive(t, b) } })

\* KeyManagementScheme::update
TreeUpdate(t, b) ==
    Only({ IF d.t.st # "ok" THEN d
           ELSE [t |-> [d.t EXCEPT
                          !.updated_blocks = d.t.updated_blocks \cup {b}],
                 res |-> d.res]
           : d \in { TreeDerive(t, b) } })

\* The orders a HashMap or HashSet may be iterated in.
Orders(S) ==
    { s \in [1 .. Cardinality(S) -> S] : \A i, j \in DOMAIN s :
                                            i # j => s[i] # s[j] }

\* KeyManagementScheme::commit, first loop: the in-flight blocks that were
\* not updated are inserted, in the order ord.
RECURSIVE CommitInsert(_, _, _)
CommitInsert(t, ord, i) ==
    IF i > Len(ord) \/ t.st # "ok" THEN t
    ELSE Only({ CommitInsert(r.t, ord, i + 1)
                : r \in { TreeInsert(t, ord[i], t.in_flight_blocks[ord[i]],
                                     TRUE) } })

\* Second loop: (block, derive(block)) for the updated blocks, in order ord.
RECURSIVE CommitDerive(_, _, _, _)
CommitDerive(t, ord, i, acc) ==
    IF i > Len(ord) \/ t.st # "ok" THEN [t |-> t, res |-> acc]
    ELSE Only({ CommitDerive(d.t, ord, i + 1,
                             IF d.t.st = "ok"
                             THEN Append(acc, << ord[i], d.res >>) ELSE acc)
                : d \in { TreeDerive(t, ord[i]) } })

\* The end of commit: the keys of the updated nodes are replaced and the
\* bookkeeping is emptied.
CommitRekey(t, res) ==
    Only({ [t |-> [t EXCEPT !.root = c.node, !.rng = c.rng,
                            !.updated = {}, !.in_flight_blocks = EmptyMap,
                            !.updated_blocks = {}, !.cached_keys = EmptyMap],
            res |-> res]
           : c \in { NodeCommit(t.root, t.updated, t.rng) } })

TreeCommit(t, ord1, ord2) ==
    Only({ IF t1.st # "ok" THEN [t |-> t1, res |-> << >>]
           ELSE Only({ IF d.t.st # "ok" THEN [t |-> d.t, res |-> << >>]
                       ELSE CommitRekey(d.t, d.res)
                       : d \in { CommitDerive(t1, ord2, 1, << >>) } })
           : t1 \in { CommitInsert(t, ord1, 1) } })

\* ----------------------------------------------------- metadata (lib.rs)
\* bincode of a HashSet<u64>: the count, then the elements.
RECURSIVE SetToSeq(_)
SetToSeq(S) ==
    IF S = {} THEN << >>
    ELSE LET m == CHOOSE x \in S : \A y \in S : x <= y
         IN  << m >> \o SetToSeq(S \ {m})

serialize_set(S) == << Cardinality(S) >> \o SetToSeq(S)
deserialize_set(raw) == { raw[i + 1] : i \in 1 .. raw[1] }

\* serialize_keys_map / deserialize_keys_map: the count, then the
\* (block, key) entries.
serialize_keys_map(m) ==
    LET bs == SetToSeq(MapKeys(m))
    IN  << Len(bs) >> \o [i \in 1 .. Len(bs) |-> << bs[i], m[bs[i]] >>]

deserialize_keys_map(raw) ==
    [b \in Blocks |->
       IF \E i \in 1 .. raw[1] : raw[i + 1][1] = b
       THEN raw[1 + (CHOOSE i \in 1 .. raw[1] : raw[i + 1][1] = b)][2]
       ELSE 0]

\* persist_meta that leaves a meta object that is there as it is.
persist_meta_once(files, t, mid) ==
    LET f1 == [files EXCEPT ![t.root.id].tail = Some(mid)]
    IN  IF FileExists(files, mid) THEN f1
        ELSE [f1 EXCEPT ![mid] =
                [kind |-> "meta", len |-> t.len, degree |-> degree,
                 updated |-> serialize_set(t.updated),
                 updated_blocks |-> serialize_set(t.updated_blocks),
                 in_flight_blocks |-> serialize_keys_map(t.in_flight_blocks)]]

\* BKeyTree::persist_meta: the meta id is appended to the root object, and
\* the meta object is written in clear.
persist_meta(files, t, mid) ==
    LET f1 == [files EXCEPT ![t.root.id].tail = Some(mid)]
    IN  [f1 EXCEPT ![mid] =
           [kind |-> "meta", len |-> t.len, degree |-> degree,
            updated |-> serialize_set(t.updated),
            updated_blocks |-> serialize_set(t.updated_blocks),
            in_flight_blocks |-> serialize_keys_map(t.in_flight_blocks)]]

\* BKeyTree::persist
TreePersist(files, t, mid, key) ==
    persist_meta(NodePersist(files, t.root, key), t, mid)

\* BKeyTree::load_meta: the meta id is the last word of the root object.
load_meta(files, root_id) ==
    LET f == files[root_id] IN
    IF ~FileExists(files, root_id) \/ f.kind # "node" THEN [st |-> "err"]
    ELSE IF f.tail = None \/ ~FileExists(files, f.tail[1])
            \/ files[f.tail[1]].kind # "meta"
    THEN [st |-> "err"]
    ELSE LET m == files[f.tail[1]]
         IN  [st |-> "ok", meta_id |-> f.tail[1], len |-> m.len,
              degree |-> m.degree,
              updated |-> deserialize_set(m.updated),
              updated_blocks |-> deserialize_set(m.updated_blocks),
              in_flight_blocks |-> deserialize_keys_map(m.in_flight_blocks)]

\* The fallible part of BKeyTree::load and BKeyTree::reload_with_storage.
LoadParts(files, id, key) ==
    Only({ IF r.st # "ok" THEN [st |-> r.st]
           ELSE IF m.st # "ok" THEN [st |-> m.st]
           ELSE [st |-> "ok", root |-> r.node, meta |-> m]
           : r \in { NodeLoad(files, id, key) },
             m \in { load_meta(files, id) } })

\* ----------------------------------------------------------------- steps
NoEpoch == [derived |-> EmptyMap, updated |-> EmptyMap, n |-> 0]

\* BKeyTree::with_storage_and_degree over DirectoryStorage::new
Init ==
    /\ root = NodeNew(0)
    /\ meta_id = 1
    /\ next_id = 2
    /\ len = 0
    /\ degree = DEFAULT_DEGREE
    /\ updated = {}
    /\ updated_blocks = {}
    /\ in_flight_blocks = EmptyMap
    /\ cached_keys = EmptyMap
    /\ storage = [i \in Ids |-> NoFile]
    /\ freed = {}
    /\ rng = MaxVal
    /\ status = "ok"
    /\ last = [op |-> "new", k |-> 0, v |-> 0, res |-> None, st |-> "ok",
               next |-> 2]
    /\ shadow = [b \in Blocks |-> 0]
    /\ pristine = TRUE
    /\ calls = 0
    /\ persisted = [valid |-> FALSE]
    /\ other = [i \in Ids |-> NoFile]
    /\ exported = [valid |-> FALSE]
    /\ epoch = NoEpoch

\* What the caller remembers of the keys it was handed: a call other than
\* derive and update ends the run of derive and update calls.
EpochCall(e) == [e EXCEPT !.derived = EmptyMap, !.n = 0]

EpochDerive(e, b, key, st) ==
    IF st # "ok" THEN e
    ELSE [e EXCEPT !.derived[b] = IF @ = 0 THEN key ELSE @, !.n = @ + 1]

EpochUpdate(e, b, key, st) ==
    IF st = "ok"
    THEN [EpochDerive(e, b, key, st) EXCEPT !.updated[b] = key] ELSE e

\* The model's bounds on the allocator, the entry count and the RNG.
Bounded(t) ==
    /\ t.next_id <= MaxId + 1
    /\ t.len <= MaxLen
    /\ t.rng <= MaxVal + MaxRng

Install(t) ==
    /\ root' = t.root
    /\ len' = t.len
    /\ updated' = t.updated
    /\ updated_blocks' = t.updated_blocks
    /\ in_flight_blocks' = t.in_flight_blocks
    /\ cached_keys' = t.cached_keys
    /\ next_id' = t.next_id
    /\ freed' = t.freed
    /\ rng' = t.rng
    /\ status' = IF t.st \in {"panic", "assert"} THEN "panic" ELSE "ok"

\* The caller makes a call only to a tree no call panicked on, and at most
\* MaxCalls calls.
Ready == status = "ok" /\ calls < MaxCalls

Called(op, k, v, res, st) ==
    /\ calls' = calls + 1
    /\ last' = [op |-> op, k |-> k, v |-> v, res |-> res, st |-> st,
                next |-> next_id]

InsertStep(op, for_update) ==
    /\ Ready
    /\ \E k \in CallerBlocks, v \in CallerVals :
          \E r \in { TreeInsert(Tree, k, v, for_update) } :
            /\ Bounded(r.t)
            /\ Install(r.t)
            /\ Called(op, k, v, r.res, r.t.st)
            /\ shadow' = IF r.t.st = "ok" THEN [shadow EXCEPT ![k] = v] ELSE shadow
            /\ epoch' = EpochCall(epoch)
            /\ UNCHANGED << degree, meta_id, storage, pristine, persisted, other,
                            exported >>

Insert == InsertStep("insert", TRUE)

InsertNoUpdate == InsertStep("insert_no_update", FALSE)

RemoveStep(op) ==
    /\ Ready
    /\ \E k \in CallerBlocks, ub \in UBOutcomes :
          \E r \in { TreeRemoveEntry(Tree, k, ub) } :
            /\ Install(r.t)
            /\ Called(op, k, 0, r.res, r.t.st)
            /\ shadow' = IF r.t.st = "ok" THEN [shadow EXCEPT ![k] = 0] ELSE shadow
            /\ epoch' = EpochCall(epoch)
            /\ UNCHANGED << degree, meta_id, storage, pristine, persisted, other,
                            exported >>

RemoveEntry == RemoveStep("remove_entry")

RemoveEntryNoUpdate == RemoveStep("remove_entry_no_update")

Clear ==
    /\ Ready
    /\ \E t \in { TreeClear(Tree) } :
        /\ Bounded(t)
        /\ Install(t)
        /\ Called("clear", 0, 0, IF t.st = "ok" THEN Some(t.root.id) ELSE None, t.st)
        /\ shadow' = IF t.st = "ok" THEN [b \in Blocks |-> 0] ELSE shadow
        /\ epoch' = EpochCall(epoch)
        /\ UNCHANGED << degree, meta_id, storage, pristine, persisted, other,
                            exported >>

Derive ==
    /\ Ready
    /\ \E b \in CallerBlocks :
          \E r \in { TreeDerive(Tree, b) } :
            /\ Bounded(r.t)
            /\ Install(r.t)
            /\ Called("derive", b, 0, Some(r.res), r.t.st)
            /\ epoch' = EpochDerive(epoch, b, r.res, r.t.st)
            /\ UNCHANGED << degree, meta_id, storage, shadow, pristine, persisted,
                            other, exported >>

Update ==
    /\ Ready
    /\ \E b \in CallerBlocks :
          \E r \in { TreeUpdate(Tree, b) } :
            /\ Bounded(r.t)
            /\ Install(r.t)
            /\ Called("update", b, 0, Some(r.res), r.t.st)
            /\ epoch' = EpochUpdate(epoch, b, r.res, r.t.st)
            /\ UNCHANGED << degree, meta_id, storage, shadow, pristine, persisted,
                            other, exported >>

\* The reference map after the inserts commit made, in their order.
RECURSIVE ShadowPut(_, _, _, _)
ShadowPut(sh, m, ord, i) ==
    IF i > Len(ord) THEN sh
    ELSE ShadowPut([sh EXCEPT ![ord[i]] = m[ord[i]]], m, ord, i + 1)

Commit ==
    /\ Ready
    /\ \E ord1 \in Orders(MapKeys(in_flight_blocks) \ updated_blocks),
           ord2 \in Orders(updated_blocks) :
          \E r \in { TreeCommit(Tree, ord1, ord2) } :
            /\ Bounded(r.t)
            /\ Install(r.t)
            /\ Called("commit", 0, 0, r.res, r.t.st)
            /\ shadow' = IF r.t.st = "ok"
                         THEN ShadowPut(shadow, in_flight_blocks, ord1, 1)
                         ELSE shadow
            /\ epoch' = IF r.t.st = "ok" THEN NoEpoch ELSE epoch
            /\ UNCHANGED << degree, meta_id, storage, pristine, persisted, other,
                            exported >>

\* What get_key_value gives for every block id, without changing the tree.
KvOf(n) == [b \in Blocks |-> NodeGet(n, b).res]

Persist ==
    /\ Ready
    /\ \E key \in CallerVals :
            /\ storage' = TreePersist(storage, Tree, meta_id, key)
            /\ persisted' =
                 [valid |-> TRUE, root_id |-> root.id, key |-> key,
                  kv |-> KvOf(root), len |-> len, degree |-> degree,
                  updated |-> updated, updated_blocks |-> updated_blocks,
                  in_flight_blocks |-> in_flight_blocks, pristine |-> pristine,
                  times |-> IF persisted.valid /\ persisted.root_id = root.id
                            THEN persisted.times + 1 ELSE 1]
            /\ Called("persist", root.id, key, None, "ok")
            /\ epoch' = EpochCall(epoch)
            /\ UNCHANGED << root, len, degree, updated, updated_blocks,
                            in_flight_blocks, cached_keys, meta_id, next_id, freed,
                            rng, status, shadow, pristine, other, exported >>

\* load that empties the sets of the tree before its fallible operations.
LoadStepResetFirst(op, fresh_store, from_other) ==
    /\ Ready
    /\ \E id \in Ids, key \in CallerVals :
          \E p \in { LoadParts(IF from_other THEN other ELSE storage, id, key) } :
            /\ IF p.st = "ok"
               THEN Called(op, id, key, None, "ok")
               ELSE Called(op, 0, 0, None, p.st)
            /\ storage' = IF p.st = "ok" /\ from_other THEN other ELSE storage
            /\ other' = IF p.st = "ok" /\ from_other THEN storage ELSE other
            /\ IF p.st = "ok"
               THEN /\ root' = p.root
                    /\ meta_id' = p.meta.meta_id
                    /\ len' = p.meta.len
                    /\ degree' = p.meta.degree
                    /\ updated' = p.meta.updated
                    /\ updated_blocks' = p.meta.updated_blocks
                    /\ in_flight_blocks' = p.meta.in_flight_blocks
                    /\ cached_keys' = IF fresh_store THEN EmptyMap ELSE cached_keys
                    /\ next_id' = IF fresh_store THEN 0 ELSE next_id
                    /\ freed' = IF fresh_store THEN {} ELSE freed
                    /\ shadow' = [b \in Blocks |->
                                    IF NodeGet(root, b)'.st = "ok"
                                       /\ NodeGet(root, b)'.res # None
                                    THEN NodeGet(root, b)'.res[1][2] ELSE 0]
                    /\ pristine' = FALSE
                    /\ status' = "ok"
               ELSE /\ status' = IF p.st = "panic" THEN "panic" ELSE "ok"
                    /\ updated' = {}
                    /\ updated_blocks' = {}
                    /\ in_flight_blocks' = EmptyMap
                    /\ UNCHANGED << root, meta_id, len, degree, cached_keys,
                                    next_id, freed, shadow, pristine >>
            /\ epoch' = IF p.st = "ok" THEN NoEpoch ELSE EpochCall(epoch)
            /\ UNCHANGED << rng, persisted, exported >>

\* BKeyTree::load and BKeyTree::reload_with_storage from the store the
\* tree is over, or reload_with_storage from the second store, which then
\* is the store of the tree.  The caller may load with the id and key of
\* the last persist, and with every other pair.
LoadStep(op, fresh_store, from_other) ==
    /\ Ready
    /\ \E id \in Ids, key \in CallerVals :
          \E p \in { LoadParts(IF from_other THEN other ELSE storage, id, key) } :
            /\ IF p.st = "ok"
               THEN Called(op, id, key, None, "ok")
               ELSE Called(op, 0, 0, None, p.st)
            /\ storage' = IF p.st = "ok" /\ from_other THEN other ELSE storage
            /\ other' = IF p.st = "ok" /\ from_other THEN storage ELSE other
            /\ IF p.st = "ok"
               THEN /\ root' = p.root
                    /\ meta_id' = p.meta.meta_id
                    /\ len' = p.meta.len
                    /\ degree' = p.meta.degree
                    /\ updated' = p.meta.updated
                    /\ updated_blocks' = p.meta.updated_blocks
                    /\ in_flight_blocks' = p.meta.in_flight_blocks
                    /\ cached_keys' = IF fresh_store THEN EmptyMap ELSE cached_keys
                    /\ next_id' = IF fresh_store THEN 0 ELSE next_id
                    /\ freed' = IF fresh_store THEN {} ELSE freed
                    /\ shadow' = [b \in Blocks |->
                                    IF NodeGet(root, b)'.st = "ok"
                                       /\ NodeGet(root, b)'.res # None
                                    THEN NodeGet(root, b)'.res[1][2] ELSE 0]
                    /\ pristine' = FALSE
                    /\ status' = "ok"
               ELSE /\ status' = IF p.st = "panic" THEN "panic" ELSE "ok"
                    /\ UNCHANGED << root, meta_id, len, degree, updated,
                                    updated_blocks, in_flight_blocks, cached_keys,
                                    next_id, freed, shadow, pristine >>
            /\ epoch' = IF p.st = "ok" THEN NoEpoch ELSE EpochCall(epoch)
            /\ UNCHANGED << rng, persisted, exported >>

\* BKeyTree::load: into the tree at hand, over its own store.
Load == LoadStep("load", FALSE, FALSE)

\* BKeyTree::reload: a new tree over DirectoryStorage::new(path), whose
\* allocator starts again.
Reload == LoadStep("reload", TRUE, FALSE)

\* BKeyTree::reload_with_storage over the second store.
ReloadOther == LoadStep("reload_other", TRUE, TRUE)

\* BKeyTree::persist_to: the Loaded nodes and the metadata are written to
\* the second store; the tree and its own store stay as they are.
PersistTo ==
    /\ Ready
    /\ \E key \in CallerVals :
            /\ other' = TreePersist(other, Tree, meta_id, key)
            /\ exported' = [valid |-> TRUE, root_id |-> root.id, key |-> key,
                            kv |-> KvOf(root)]
            /\ Called("persist_to", root.id, key, None, "ok")
            /\ epoch' = EpochCall(epoch)
            /\ UNCHANGED << root, len, degree, updated, updated_blocks,
                            in_flight_blocks, cached_keys, meta_id, next_id, freed,
                            rng, status, shadow, pristine, storage, persisted >>

\* The tree after insert_no_update of the keys 0 .. n-1, each with value 1.
RECURSIVE BuildTree(_)
BuildTree(n) ==
    IF n = 0
    THEN [root |-> NodeNew(0), len |-> 0, updated |-> {},
          updated_blocks |-> {}, in_flight_blocks |-> EmptyMap,
          cached_keys |-> EmptyMap, next_id |-> 2, freed |-> {},
          rng |-> MaxVal, st |-> "ok"]
    ELSE Only({ TreeInsert(prev, n - 1, 1, FALSE).t
                : prev \in { BuildTree(n - 1) } })

\* The caller has built a tree of BuiltLen entries with insert_no_update.
InitBuilt ==
    /\ degree = DEFAULT_DEGREE
    /\ storage = [i \in Ids |-> NoFile]
    /\ meta_id = 1
    /\ \E t \in { BuildTree(BuiltLen) } :
       /\ root = t.root
       /\ len = t.len
       /\ updated = t.updated
       /\ updated_blocks = t.updated_blocks
       /\ in_flight_blocks = t.in_flight_blocks
       /\ cached_keys = t.cached_keys
       /\ next_id = t.next_id
       /\ freed = t.freed
       /\ rng = t.rng
    /\ status = "ok"
    /\ last = [op |-> "insert_no_update", k |-> BuiltLen - 1, v |-> 1,
               res |-> None, st |-> "ok", next |-> next_id]
    /\ shadow = [b \in Blocks |-> IF b < BuiltLen THEN 1 ELSE 0]
    /\ pristine = TRUE
    /\ calls = BuiltLen
    /\ persisted = [valid |-> FALSE]
    /\ other = [i \in Ids |-> NoFile]
    /\ exported = [valid |-> FALSE]
    /\ epoch = NoEpoch

NextPersist ==
    \/ Insert \/ InsertNoUpdate \/ RemoveEntry \/ Derive \/ Update \/ Commit
    \/ Persist \/ Load \/ Reload

SpecPersist == InitBuilt /\ [][NextPersist]_vars

NextMap ==
    \/ Insert \/ InsertNoUpdate \/ RemoveEntry \/ RemoveEntryNoUpdate
    \/ Clear

SpecMap == Init /\ [][NextMap]_vars

\* The caller has built a tree of TallLen entries with insert_no_update,
\* the fewest that give three levels at DEFAULT_DEGREE, and has TallCalls
\* calls to make.
InitTall ==
    /\ degree = DEFAULT_DEGREE
    /\ storage = [i \in Ids |-> NoFile]
    /\ meta_id = 1
    /\ \E t \in { BuildTree(TallLen) } :
       /\ root = t.root
       /\ len = t.len
       /\ updated = t.updated
       /\ updated_blocks = t.updated_blocks
       /\ in_flight_blocks = t.in_flight_blocks
       /\ cached_keys = t.cached_keys
       /\ next_id = t.next_id
       /\ freed = t.freed
       /\ rng = t.rng
    /\ status = "ok"
    /\ last = [op |-> "insert_no_update", k |-> TallLen - 1, v |-> 1,
               res |-> None, st |-> "ok", next |-> next_id]
    /\ shadow = [b \in Blocks |-> IF b < TallLen THEN 1 ELSE 0]
    /\ pristine = TRUE
    /\ calls = MaxCalls - TallCalls
    /\ persisted = [valid |-> FALSE]
    /\ other = [i \in Ids |-> NoFile]
    /\ exported = [valid |-> FALSE]
    /\ epoch = NoEpoch

NextNodes ==
    \/ Insert \/ InsertNoUpdate \/ RemoveEntry \/ Derive \/ Commit
    \/ Persist \/ Load \/ Reload \/ PersistTo \/ ReloadOther

SpecNodes == InitTall /\ [][NextNodes]_vars

\* The blocks the caller stores before the epochs start.
KeysBuilt == << 0, 2 >>

\* The tree after insert_no_update of the first n of these, each with
\* value 1.
RECURSIVE BuildKeys(_)
BuildKeys(n) ==
    IF n = 0 THEN BuildTree(0)
    ELSE Only({ TreeInsert(prev, KeysBuilt[n], 1, FALSE).t
                : prev \in { BuildKeys(n - 1) } })

InitKeys ==
    /\ degree = DEFAULT_DEGREE
    /\ storage = [i \in Ids |-> NoFile]
    /\ meta_id = 1
    /\ \E t \in { BuildKeys(Len(KeysBuilt)) } :
       /\ root = t.root
       /\ len = t.len
       /\ updated = t.updated
       /\ updated_blocks = t.updated_blocks
       /\ in_flight_blocks = t.in_flight_blocks
       /\ cached_keys = t.cached_keys
       /\ next_id = t.next_id
       /\ freed = t.freed
       /\ rng = t.rng
    /\ status = "ok"
    /\ last = [op |-> "insert_no_update", k |-> KeysBuilt[Len(KeysBuilt)],
               v |-> 1, res |-> None, st |-> "ok", next |-> next_id]
    /\ shadow = [b \in Blocks |->
                   IF \E i \in DOMAIN KeysBuilt : KeysBuilt[i] = b
                   THEN 1 ELSE 0]
    /\ pristine = TRUE
    /\ calls = Len(KeysBuilt)
    /\ persisted = [valid |-> FALSE]
    /\ other = [i \in Ids |-> NoFile]
    /\ exported = [valid |-> FALSE]
    /\ epoch = NoEpoch

NextKeys ==
    \/ Insert \/ InsertNoUpdate \/ RemoveEntry \/ Derive \/ Update \/ Commit

SpecKeys == InitKeys /\ [][NextKeys]_vars

\* ------------------------------------------------------- what is observed
\* The keys of the loaded part of the tree under n, in order of traversal.
RECURSIVE KeySeq(_)
RECURSIVE KeySeqFrom(_, _)
KeySeq(n) == IF NodeIsLeaf(n) THEN n.keys ELSE KeySeqFrom(n, 0)

KeySeqFrom(n, i) ==
    IF i >= Len(n.children) THEN << >>
    ELSE (IF At(n.children, i).tag = "Loaded"
          THEN KeySeq(ChildNode(n, i)) ELSE << >>)
         \o (IF i < Len(n.keys) THEN << At(n.keys, i) >> ELSE << >>)
         \o KeySeqFrom(n, i + 1)

\* The loaded nodes under n, n included.
RECURSIVE NodesOf(_)
NodesOf(n) ==
    {n} \cup UNION { NodesOf(n.children[i].node) :
                       i \in { j \in DOMAIN n.children :
                                 n.children[j].tag = "Loaded" } }

\* The depths of the leaves under n, n being at depth d.
RECURSIVE LeafDepths(_, _)
LeafDepths(n, d) ==
    IF NodeIsLeaf(n) THEN {d}
    ELSE UNION { LeafDepths(n.children[i].node, d + 1) :
                   i \in { j \in DOMAIN n.children :
                             n.children[j].tag = "Loaded" } }

\* How often k occurs among the keys of the tree.
Occurrences(k) ==
    Cardinality({ i \in DOMAIN KeySeq(root) : KeySeq(root)[i] = k })

\* BKeyTree::get_key_value(k) and BKeyTree::contains(k) on the tree as it is.
GetKeyValue(k) == NodeGet(root, k).res
Contains(k) == GetKeyValue(k) # None

\* ------------------------------------------------------------------ C1
\* C1: whenever the calls so far have completed, get(k) gives the value of
\* the latest insert(k, .) for every k inserted and not removed since, and
\* None for every other k.
C1_OrderedMapLaw ==
    status = "ok" =>
        \A k \in Blocks :
            GetKeyValue(k) = IF shadow[k] = 0 THEN None
                             ELSE Some(<< k, shadow[k] >>)

\* ------------------------------------------------------------------ C2
\* C2: an insert(k, v2) of a key stored with value v1 that returns, returns
\* Some(v1), leaves len as it was and one occurrence of k in the tree, and
\* get(k) then gives v2, wherever k sits.
C2_DuplicateInsert ==
    [][\A k \in Blocks :
         (/\ status = "ok"
          /\ Contains(k)
          /\ last'.op = "insert" /\ last'.k = k /\ last'.st = "ok"
          /\ calls' = calls + 1)
         => /\ last'.res = Some(GetKeyValue(k)[1][2])
            /\ len' = len
            /\ Occurrences(k)' = 1
            /\ GetKeyValue(k)' = Some(<< k, last'.v >>)]_vars

\* ------------------------------------------------------------------ C3
\* C3: len is the number of distinct block ids stored in the tree.
C3_CountLaw ==
    status = "ok" => len = Cardinality(Range(KeySeq(root)))

\* ------------------------------------------------------------------ C4
\* C4: a remove_entry(k) of a key stored with value v that returns, returns
\* Some((k, v)); afterwards k is not contained and every other pair is as
\* it was.
C4_RemoveEntry ==
    [][\A k \in Blocks :
         (/\ status = "ok"
          /\ Contains(k)
          /\ last'.op = "remove_entry" /\ last'.k = k /\ last'.st = "ok"
          /\ calls' = calls + 1)
         => /\ last'.res = GetKeyValue(k)
            /\ ~Contains(k)'
            /\ \A j \in Blocks \ {k} : GetKeyValue(j)' = GetKeyValue(j)]_vars

\* ------------------------------------------------------------------ C7
\* C7: the keys of the tree, traversed in order, are strictly increasing:
\* every node's keys are, every subtree lies between the keys around it,
\* and no block id occurs twice.
C7_StrictOrder ==
    status = "ok" =>
        \A i, j \in DOMAIN KeySeq(root) :
            i < j => KeySeq(root)[i] < KeySeq(root)[j]

\* ------------------------------------------------------------------ C8
\* C8: every internal node has one more child than keys, a key for every
\* child and a value for every key, in the state every call leaves.
C8_ChildSlots ==
    \A n \in NodesOf(root) :
        /\ Len(n.vals) = Len(n.keys)
        /\ ~NodeIsLeaf(n) => /\ Len(n.children) = Len(n.keys) + 1
                             /\ Len(n.children_keys) = Len(n.children)

\* ------------------------------------------------------------------ C5
\* C5: whenever the calls so far have completed, every node holds at most
\* 2 * degree - 1 keys and every node but the root at least degree - 1.
C5_KeyBounds ==
    status = "ok" =>
        \A n \in NodesOf(root) :
            /\ Len(n.keys) <= 2 * degree - 1
            /\ n.id # root.id => Len(n.keys) >= degree - 1

\* A remove has just taken a key out of a tree whose root is internal and
\* has a child holding the least it may.
C5_Witness ==
    /\ status = "ok"
    /\ last.op \in {"remove_entry", "remove_entry_no_update"}
    /\ last.res # None
    /\ ~NodeIsLeaf(root)
    /\ \E n \in NodesOf(root) : n.id # root.id /\ Len(n.keys) = degree - 1

\* ------------------------------------------------------------------ C6
\* C6: whenever the calls so far have completed, all leaves are at one depth.
C6_LeafDepth ==
    status = "ok" => Cardinality(LeafDepths(root, 0)) = 1

\* A remove has just emptied the root a full root had grown into, and the
\* tree is one leaf again: the child the merge left.
C6_Witness ==
    /\ status = "ok"
    /\ last.op \in {"remove_entry", "remove_entry_no_update"}
    /\ last.res # None
    /\ NodeIsLeaf(root)
    /\ root.id # 0
    /\ freed # {}

\* ------------------------------------------------------------------ C9
\* C9: right after a reload with the root id and the key of the last
\* persist, of a tree no load had produced, get_key_value(k) completes and
\* gives for every k what it gave when persist was called.
C9_PersistReload ==
    ( /\ last.op = "reload" /\ last.st = "ok"
      /\ persisted.valid /\ persisted.pristine
      /\ last.k = persisted.root_id /\ last.v = persisted.key )
    => \A k \in Blocks :
          /\ NodeGet(root, k).st = "ok"
          /\ NodeGet(root, k).res = persisted.kv[k]

\* Such a reload has given a tree whose root has children, all of them still
\* to be loaded, and which holds an entry below the root.
C9_Witness ==
    /\ last.op = "reload" /\ last.st = "ok"
    /\ persisted.valid /\ persisted.pristine
    /\ last.k = persisted.root_id /\ last.v = persisted.key
    /\ ~NodeIsLeaf(root)
    /\ \A i \in DOMAIN root.children : root.children[i].tag = "Unloaded"
    /\ \E k \in Blocks :
          /\ persisted.kv[k] # None
          /\ \A i \in DOMAIN root.keys : root.keys[i] # k

\* ----------------------------------------------------------------- C10
\* C10: right after a load or a reload with the root id and the key of the
\* last persist, len, degree, updated, updated_blocks and in_flight_blocks
\* are what they were when persist was called.
C10_MetaRestored ==
    ( /\ last.op \in {"reload", "load"} /\ last.st = "ok"
      /\ persisted.valid
      /\ last.k = persisted.root_id /\ last.v = persisted.key )
    => /\ len = persisted.len
       /\ degree = persisted.degree
       /\ updated = persisted.updated
       /\ updated_blocks = persisted.updated_blocks
       /\ in_flight_blocks = persisted.in_flight_blocks

\* Such a load follows the second persist or a later one of one root
\* object, and restores an in_flight_blocks map that is not empty.
C10_Witness ==
    /\ last.op \in {"reload", "load"} /\ last.st = "ok"
    /\ persisted.valid
    /\ last.k = persisted.root_id /\ last.v = persisted.key
    /\ persisted.times >= 2
    /\ in_flight_blocks # EmptyMap
    /\ in_flight_blocks = persisted.in_flight_blocks

\* What derive(b) would return on the tree as it is.
DeriveNow(b) == TreeDerive(Tree, b).res

\* ----------------------------------------------------------------- C12
\* C12: a derive(b) that follows a derive(b) or an update(b) in a run of
\* derive and update calls returns the key the first of them returned.
C12_DeriveIdempotent ==
    [][\A b \in Blocks :
        ( /\ status = "ok" /\ epoch.derived[b] # 0
          /\ last'.op = "derive" /\ last'.k = b /\ last'.st = "ok"
          /\ calls' = calls + 1 )
        => last'.res = Some(epoch.derived[b])]_vars

\* A derive(b) has just returned at the end of a run of two calls or more,
\* all of them on b, one of them an update.
C12_Witness ==
    /\ status = "ok"
    /\ last.op = "derive" /\ last.st = "ok"
    /\ epoch.n >= 2
    /\ MapKeys(epoch.derived) = {last.k}
    /\ last.k \in updated_blocks
    /\ last.res = Some(epoch.derived[last.k])

\* ----------------------------------------------------------------- C13
\* C13: a derive(b) of a block neither memoized nor stored returns a new
\* key, after which b is contained with that key, len is one more and the
\* key is memoized; a derive(b) of a stored block that is not memoized
\* returns the stored value and leaves the tree and its bookkeeping alone.
C13_DeriveInserts ==
    [][\A b \in Blocks :
        ( /\ status = "ok" /\ cached_keys[b] = 0
          /\ last'.op = "derive" /\ last'.k = b /\ last'.st = "ok"
          /\ calls' = calls + 1 )
        => IF Contains(b)
           THEN /\ last'.res = Some(GetKeyValue(b)[1][2])
                /\ UNCHANGED << root, len, updated, updated_blocks,
                                in_flight_blocks, cached_keys, rng >>
           ELSE /\ last'.res = Some(rng')
                /\ rng' > rng
                /\ cached_keys'[b] = rng'
                /\ GetKeyValue(b)' = Some(<< b, rng' >>)
                /\ len' = len + 1]_vars

\* ----------------------------------------------------------------- C14
\* C14: an update(b) returns the key the derive(b) calls of its run
\* returned before it and the key derive(b) returns after it, and adds b
\* and nothing else to updated_blocks.
C14_UpdateKey ==
    [][\A b \in Blocks :
        ( /\ status = "ok"
          /\ last'.op = "update" /\ last'.k = b /\ last'.st = "ok"
          /\ calls' = calls + 1 )
        => /\ epoch.derived[b] # 0 => last'.res = Some(epoch.derived[b])
           /\ last'.res = Some(DeriveNow(b)')
           /\ updated_blocks' = updated_blocks \cup {b}]_vars

\* An update(b) has just returned the key of an earlier derive(b) or
\* update(b) of the same run, for a block that is not stored.
C14_Witness ==
    /\ status = "ok"
    /\ last.op = "update" /\ last.st = "ok"
    /\ epoch.n >= 2
    /\ MapKeys(epoch.derived) = {last.k}
    /\ last.res = Some(epoch.updated[last.k])
    /\ last.k \in updated_blocks
    /\ in_flight_blocks[last.k] # 0

\* A commit is called on a tree no call panicked on, and returns.
CommitReturns ==
    /\ status = "ok"
    /\ last'.op = "commit" /\ last'.st = "ok"
    /\ calls' = calls + 1

\* ----------------------------------------------------------------- C15
\* C15: a commit that returns, returns one pair (b, k) for every
\* block updated since the previous commit and no other pair, k being the
\* key the update(b) of that epoch returned.
C15_CommitPairs ==
    [][CommitReturns =>
         /\ { last'.res[i][1] : i \in DOMAIN last'.res } = MapKeys(epoch.updated)
         /\ Len(last'.res) = Cardinality(MapKeys(epoch.updated))
         /\ \A i \in DOMAIN last'.res :
               last'.res[i][2] = epoch.updated[last'.res[i][1]]]_vars

\* ----------------------------------------------------------------- C16
\* C16: for every block that is stored or was derived in the epoch and is
\* not in updated_blocks when a commit is called, derive(b) returns after
\* the commit the key it returned before.
C16_EpochStable ==
    [][CommitReturns =>
         \A b \in Blocks \ updated_blocks :
            (Contains(b) \/ in_flight_blocks[b] # 0 \/ cached_keys[b] # 0)
            => DeriveNow(b)' = DeriveNow(b)]_vars

\* ----------------------------------------------------------------- C17
\* C17: for every block in updated_blocks when a commit is called, stored
\* or not, derive(b) returns after the commit a key other than the one it
\* returned before.
C17_EpochRotation ==
    [][CommitReturns =>
         \A b \in updated_blocks : DeriveNow(b)' # DeriveNow(b)]_vars

\* ----------------------------------------------------------------- C18
\* C18: for every block update(b) returned k for during the epoch,
\* derive(b) returns k after the commit that ends the epoch.
C18_UpdateKeyDerivable ==
    [][CommitReturns =>
         \A b \in MapKeys(epoch.updated) : DeriveNow(b)' = epoch.updated[b]]_vars

\* The child slots of the loaded nodes under n, n being at path: the id of
\* the child, the key its parent holds for it, whether it is hydrated, and
\* the slot indices that lead to it from the root.
RECURSIVE SlotsAt(_, _)
SlotsAt(n, path) ==
    UNION { { [id |-> ChildId(n.children[i]), key |-> n.children_keys[i],
               parent |-> n.id, tag |-> n.children[i].tag,
               path |-> Append(path, i)] }
            \cup (IF n.children[i].tag = "Loaded"
                  THEN SlotsAt(n.children[i].node, Append(path, i))
                  ELSE {})
            : i \in DOMAIN n.children \cap DOMAIN n.children_keys }

Slots(n) == SlotsAt(n, << >>)

\* ----------------------------------------------------------------- C11
\* C11: whenever the calls so far have completed, every child slot that
\* holds Unloaded(id) hydrates under the key its parent holds for it, and
\* to a node whose id is id.
C11_UnloadedKey ==
    status = "ok" =>
        \A s \in Slots(root) :
            s.tag = "Unloaded" =>
                /\ NodeLoad(storage, s.id, s.key).st = "ok"
                /\ NodeLoad(storage, s.id, s.key).node.id = s.id

RECURSIVE Height(_)
Height(n) ==
    IF NodeIsLeaf(n) THEN 1
    ELSE Only({ IF a.st # "ok" THEN 1
                ELSE 1 + Height(ChildNode(a.node, 0))
                : a \in { access_child(n, 0) } })

\* A remove_entry or remove_entry_no_update removes an entry and returns.
RemoveReturns ==
    /\ status = "ok" /\ calls' = calls + 1
    /\ last'.op \in {"remove_entry", "remove_entry_no_update"}
    /\ last'.st = "ok" /\ last'.res # None

\* ----------------------------------------------------------------- C21
\* C21: a remove never leaves an internal root without keys: the root that
\* a remove empties gives way to a child it had, the tree is one level
\* lower, and every other entry is found as before.
C21_RootCollapse ==
    [][RemoveReturns =>
         /\ NodeIsLeaf(root') \/ ~NodeIsEmpty(root')
         /\ root'.id # root.id =>
              /\ \E i \in DOMAIN root.children :
                    ChildId(root.children[i]) = root'.id
              /\ Height(root)' = Height(root) - 1
              /\ \A j \in Blocks \ {last'.k} :
                    GetKeyValue(j)' = GetKeyValue(j)]_vars

\* ----------------------------------------------------------------- C22
\* C22: a load or reload ends with the tree loaded or with an error value,
\* whatever object and key it is given; it never panics.
C22_LoadErrors ==
    last.op \in {"load", "reload"} => last.st \in {"ok", "err"}

\* ----------------------------------------------------------------- C23
\* C23: right after a reload from the second store with the root id and
\* the key of the last persist_to, get_key_value(k) completes and gives,
\* for every k the tree held when persist_to was called, the pair it held.
C23_ExportReload ==
    ( /\ last.op = "reload_other" /\ last.st = "ok"
      /\ exported.valid
      /\ last.k = exported.root_id /\ last.v = exported.key )
    => \A k \in Blocks :
          exported.kv[k] # None =>
             /\ NodeGet(root, k).st = "ok"
             /\ NodeGet(root, k).res = exported.kv[k]

\* Map operations, clear and the persist / load / reload cycle on the
\* three-entry tree: the calls that take ids from the allocator, before and
\* after the storage handle is rebuilt.
NextAlloc ==
    \/ Insert \/ InsertNoUpdate \/ RemoveEntry \/ Clear
    \/ Persist \/ Load \/ Reload

SpecAlloc == InitBuilt /\ [][NextAlloc]_vars

\* A call of clear that returns Ok.
ClearReturns ==
    /\ status = "ok"
    /\ calls' = calls + 1
    /\ last'.op = "clear"
    /\ last'.st = "ok"

\* C24: after clear() returns, len() is 0, get(k) is None for every block k,
\* the root is an empty leaf, and root_id() is the id clear returned, which
\* is freshly allocated and differs from the root id before the call.
C24_Clear ==
    [][ClearReturns =>
         /\ len' = 0
         /\ \A k \in Blocks : GetKeyValue(k)' = None
         /\ NodeIsLeaf(root') /\ NodeIsEmpty(root')
         /\ last'.res = Some(root'.id)
         /\ root'.id # root.id]_vars

\* The ids of the nodes of the tree under n: n itself and every child slot
\* below it, hydrated or not.
TreeIds(n) == {n.id} \cup { s.id : s \in Slots(n) }

\* C25: a remove makes a node disappear only by handing its id to
\* dealloc_id: after a remove that returns an entry, every id of a node of
\* the tree before the call that was not deallocated still belongs to a
\* node of the tree, and no id of a node still in the tree is deallocated.
C25_NoLeak ==
    [][RemoveReturns =>
         /\ (TreeIds(root) \ freed') \subseteq TreeIds(root')
         /\ TreeIds(root') \cap freed' = {}]_vars

\* ----------------------------------------------------------------- Iter
\* The state of an Iter: the stack of node ids and of the index reached in
\* each of them.
IterState(st, nodes, indices) ==
    [st |-> st, nodes |-> nodes, indices |-> indices]

\* The leftmost descent of Iter::new and Iter::next: every node from n down
\* to the leftmost leaf is pushed with index 0, children being hydrated on
\* the way.
RECURSIVE IterDescend(_, _, _)
IterDescend(n, nodes, indices) ==
    IF NodeIsLeaf(n)
    THEN IterState("ok", Append(nodes, n.id), Append(indices, 0))
    ELSE Only({ IF a.st # "ok" THEN IterState(a.st, nodes, indices)
                ELSE IterDescend(ChildNode(a.node, 0), Append(nodes, n.id),
                                 Append(indices, 0))
                : a \in { access_child(n, 0) } })

\* Iter::new
IterNew(n) ==
    IF NodeIsEmpty(n) THEN IterState("ok", << >>, << >>)
    ELSE IterDescend(n, << >>, << >>)

\* The Node::load of Iter::next: the iterator holds node ids only, and reads
\* the node from the store; the object is taken to decrypt (the key it was
\* written under is used).
IterLoad(files, id) ==
    IF ~FileExists(files, id) THEN [st |-> "err", node |-> NodeNew(id)]
    ELSE IF files[id].kind # "node" THEN [st |-> "panic", node |-> NodeNew(id)]
    ELSE NodeLoad(files, id, files[id].keys.k)

\* What Iter::next returns: st is "some" (with item), "none" or "panic".
IterRet(st, item, it) == [st |-> st, item |-> item, it |-> it]

\* The second half of Iter::next: push the leftmost path under
\* children[idx], then take keys[idx - 1] and vals[idx - 1] out of the node
\* read from the store.  An Err on the way is turned into None by ok()?;
\* Vec::remove panics on an index past the end.
IterYield(node, idx, it) ==
    Only({ IF d.st = "panic" THEN IterRet("panic", None, it)
           ELSE IF d.st # "ok" THEN IterRet("none", None, it)
           ELSE IF idx - 1 >= Len(node.keys) \/ idx - 1 >= Len(node.vals)
           THEN IterRet("panic", None, d)
           ELSE IterRet("some", << At(node.keys, idx - 1),
                                   At(node.vals, idx - 1) >>, d)
           : d \in { IF idx < Len(node.children)
                     THEN Only({ IF a.st # "ok"
                                 THEN IterState(a.st, it.nodes, it.indices)
                                 ELSE IterDescend(ChildNode(a.node, idx),
                                                  it.nodes, it.indices)
                                 : a \in { access_child(node, idx) } })
                     ELSE it } })

\* Iter::next
IterNext(it) ==
    IF Len(it.nodes) = 0 THEN IterRet("none", None, it)
    ELSE Only({
           IF ld.st = "panic" THEN IterRet("panic", None, it)
           ELSE IF ld.st # "ok" THEN IterRet("none", None, it)
           ELSE Only({
                  IterYield(ld.node, idx,
                    IF idx = NodeLen(ld.node)
                    THEN IterState("ok",
                           SubSeq(it.nodes, 1, Len(it.nodes) - 1),
                           SubSeq(it.indices, 1, Len(it.indices) - 1))
                    ELSE IterState("ok", it.nodes,
                           [it.indices EXCEPT ![Len(it.indices)] = idx]))
                  : idx \in { it.indices[Len(it.indices)] + 1 } })
           : ld \in { IterLoad(storage, it.nodes[Len(it.nodes)]) } })

\* The items a for loop over the iterator sees, until next gives None (st
\* "ok") or panics; more than MaxLen + 1 items are not collected.
RECURSIVE IterCollect(_, _)
IterCollect(it, acc) ==
    IF Len(acc) > MaxLen THEN [st |-> "endless", items |-> acc]
    ELSE Only({ IF r.st = "some" THEN IterCollect(r.it, Append(acc, r.item))
                ELSE [st |-> IF r.st = "none" THEN "ok" ELSE r.st,
                      items |-> acc]
                : r \in { IterNext(it) } })

\* Iterating the tree as it is.
Iterate ==
    Only({ IF it.st # "ok" THEN [st |-> it.st, items |-> << >>]
           ELSE IterCollect(it, << >>)
           : it \in { IterNew(root) } })

\* The pairs the tree holds: what get_key_value gives for the block ids.
StoredPairs == { GetKeyValue(k)[1] : k \in { b \in Blocks : Contains(b) } }

\* C26: whenever the calls so far have completed, iterating the tree yields
\* every stored (block id, key) pair exactly once, in strictly increasing
\* order of block id, and then ends.
C26_Iterate ==
    status = "ok" =>
        \E r \in { Iterate } :
            /\ r.st = "ok"
            /\ \A i, j \in DOMAIN r.items : i < j => r.items[i][1] < r.items[j][1]
            /\ { r.items[i] : i \in DOMAIN r.items } = StoredPairs

\* A call of persist that returns Ok.
PersistReturns ==
    /\ status = "ok"
    /\ calls' = calls + 1
    /\ last'.op = "persist"
    /\ last'.st = "ok"

\* The plaintext of the four framed fields of the node object f.
NodeContent(f) == << f.keys.data, f.vals.data, f.children.data,
                     f.children_keys.data >>

\* C27: no non-root node is written to the store with two different
\* contents under the same parent-held key: when a persist writes a
\* hydrated non-root node whose content differs from what the store holds
\* for it, it encrypts it under a key different from the one of the
\* ciphertext it replaces.
C27_FreshNodeKey ==
    [][PersistReturns =>
         \A s \in Slots(root) :
            ( /\ s.tag = "Loaded"
              /\ FileExists(storage, s.id)
              /\ storage[s.id].kind = "node"
              /\ NodeContent(storage'[s.id]) # NodeContent(storage[s.id]) )
            => storage'[s.id].keys.k # storage[s.id].keys.k]_vars

\* C28: no id the allocator hands out (for a split, a new root or clear) is
\* the id of an object the store holds, of the metadata object or of a node
\* of the tree, also after a reload.
C28_FreshIds ==
    [][next_id' > next_id =>
         \A id \in next_id .. (next_id' - 1) :
            /\ ~FileExists(storage, id)
            /\ id # meta_id
            /\ id \notin TreeIds(root)]_vars

\* The block keys that can be read from the object f without any key: a
\* node object is encrypted field by field and its trailer is an id; a
\* metadata object is written in clear and carries in_flight_blocks.
ClearKeys(f) ==
    IF f.kind # "meta" THEN {}
    ELSE { f.in_flight_blocks[i + 1][2] : i \in 1 .. f.in_flight_blocks[1] }

\* C29: no key material is written to the store in cleartext: no object of
\* the store, nor of the store persist_to writes to, lets a block key be
\* read without a key.
C29_NoClearKeys ==
    \A id \in Ids : ClearKeys(storage[id]) = {} /\ ClearKeys(other[id]) = {}

\* A call of commit, whatever it returns.
CommitCalled ==
    /\ status = "ok"
    /\ calls' = calls + 1
    /\ last'.op = "commit"

\* C30: when commit is called, no child slot of the tree that holds
\* Unloaded(id) has its id in updated, also when updated was restored from
\* the metadata by load or reload.
C30_UpdatedLoaded ==
    [][CommitCalled =>
         \A s \in Slots(root) : s.tag = "Unloaded" => s.id \notin updated]_vars

\* A call of remove_entry or remove_entry_no_update, whatever it returns.
RemoveCalled ==
    /\ status = "ok"
    /\ calls' = calls + 1
    /\ last'.op \in {"remove_entry", "remove_entry_no_update"}

\* The key case 2a (side 0) or case 2b (side 1) of Node::remove on the
\* internal node n puts in the place of keys[idx]: the maximum of the
\* subtree of children[idx], or the minimum of that of children[idx + 1],
\* as the subtree stands before the recursive call.  None when neither case
\* applies.
Case2Neighbour(n, idx) ==
    Only({
      IF a.st # "ok" THEN None
      ELSE IF NodeLen(ChildNode(a.node, idx)) >= degree
      THEN Only({ IF m.st = "ok" THEN Some(m.ref.v) ELSE None
                  : m \in { max_key(ChildNode(a.node, idx)) } })
      ELSE Only({
             IF b.st # "ok" THEN None
             ELSE IF NodeLen(ChildNode(b.node, idx + 1)) >= degree
             THEN Only({ IF m.st = "ok" THEN Some(m.ref.v) ELSE None
                         : m \in { min_key(ChildNode(b.node, idx + 1)) } })
             ELSE None
             : b \in { access_child(a.node, idx + 1) } })
      : a \in { access_child(n, idx) } })

\* C31: when remove finds k at index idx of the internal root and case 2a
\* or 2b applies, the call returns, k is replaced at idx by its in-order
\* predecessor (2a) or successor (2b) p, and exactly k leaves the map: p and
\* every other entry are still there with their values, also when the
\* descent to p rebalances the leaf that holds p.
C31_Case2Replace ==
    [][\A k \in CallerBlocks, i \in DOMAIN root.keys :
         ( /\ RemoveCalled
           /\ last'.k = k
           /\ ~NodeIsLeaf(root)
           /\ root.keys[i] = k
           /\ i - 1 = find_index(root, k)
           /\ Case2Neighbour(root, i - 1) # None )
         => /\ last'.st = "ok"
            /\ root'.keys = [root.keys EXCEPT ![i] = Case2Neighbour(root, i - 1)[1]]
            /\ GetKeyValue(k)' = None
            /\ \A j \in Blocks \ {k} : GetKeyValue(j)' = GetKeyValue(j)]_vars

\* The hydrated nodes under n with the slot indices that lead to them, each
\* with its id, keys, values and the keys it holds for its children.
RECURSIVE LoadedAt(_, _)
LoadedAt(n, path) ==
    { [path |-> path, id |-> n.id, keys |-> n.keys, vals |-> n.vals,
       children_keys |-> n.children_keys,
       children |-> [i \in DOMAIN n.children |-> ChildId(n.children[i])]] }
    \cup UNION { LoadedAt(n.children[i].node, Append(path, i))
                 : i \in { j \in DOMAIN n.children :
                             n.children[j].tag = "Loaded" } }

\* C32: remove_entry(k) for a block id k that is not stored returns None
\* and leaves len, the stored pairs, updated and every node as they were:
\* every hydrated node is still there with its keys, values, children ids
\* and children_keys (children on the lookup path may have been hydrated).
C32_RemoveAbsent ==
    [][\A k \in CallerBlocks :
         ( /\ RemoveCalled
           /\ last'.k = k
           /\ NodeGet(root, k).st = "ok"
           /\ NodeGet(root, k).res = None )
         => /\ last'.st = "ok"
            /\ last'.res = None
            /\ len' = len
            /\ updated' = updated
            /\ freed' = freed
            /\ LoadedAt(root, << >>) \subseteq LoadedAt(root', << >>)
            /\ \A j \in Blocks : GetKeyValue(j)' = GetKeyValue(j)]_vars

\* remove_entry of an absent block id returned None on a tree with entries,
\* an internal root and a non-empty updated set.
C32_Witness ==
    /\ status = "ok"
    /\ last.op = "remove_entry"
    /\ last.st = "ok"
    /\ last.res = None
    /\ ~Contains(last.k)
    /\ ~NodeIsLeaf(root)
    /\ updated # {}

\* A call of insert (for_update) that returns Ok.
InsertReturns ==
    /\ status = "ok"
    /\ calls' = calls + 1
    /\ last'.op = "insert"
    /\ last'.st = "ok"

\* The ids of the nodes insert_nonfull goes through for k from n down to a
\* leaf: at every internal node the child at find_index.
RECURSIVE InsertPath(_, _)
InsertPath(n, k) ==
    IF NodeIsLeaf(n) THEN {n.id}
    ELSE Only({ Only({ IF a.st # "ok" THEN {n.id}
                       ELSE {n.id} \cup InsertPath(ChildNode(a.node, idx), k)
                       : a \in { access_child(n, idx) } })
                : idx \in { find_index(n, k) } })

\* The slot to the left of slot s under the same parent, if any.
LeftOf(s, slots) ==
    { l \in slots : /\ Len(l.path) = Len(s.path)
                    /\ \A i \in 1 .. (Len(s.path) - 1) : l.path[i] = s.path[i]
                    /\ l.path[Len(l.path)] = s.path[Len(s.path)] - 1 }

\* C33: after insert(k, v) returns, updated holds the id of every node on
\* the descent path for k, of every node the call created (a new root, the
\* right half of a split), of the parent and the left half of every split,
\* and of the old root when the root was replaced.
C33_InsertMarks ==
    [][\A k \in CallerBlocks :
         (InsertReturns /\ last'.k = k)
         => /\ InsertPath(root, k)' \subseteq updated'
            /\ next_id .. (next_id' - 1) \subseteq updated'
            /\ \A s \in Slots(root') :
                  s.id \in next_id .. (next_id' - 1) =>
                     /\ s.parent \in updated'
                     /\ \A l \in LeftOf(s, Slots(root')) : l.id \in updated'
            /\ root'.id # root.id => root.id \in updated']_vars

\* insert returned after splitting a full child on the way down: the call
\* took an id from the allocator and the node of that id is in the tree.
C33_Witness ==
    /\ status = "ok"
    /\ last.op = "insert"
    /\ last.st = "ok"
    /\ next_id > last.next
    /\ \E s \in Slots(root) : s.id = last.next /\ s.id \in updated

\* What a node holds: its id, keys, values, the ids of its children and
\* the keys it holds for them.
NodeFields(n) ==
    [id |-> n.id, keys |-> n.keys, vals |-> n.vals,
     children_keys |-> n.children_keys,
     children |-> [i \in DOMAIN n.children |-> ChildId(n.children[i])]]

\* The nodes of the tree under n, every child being hydrated for the
\* purpose where it can be.
RECURSIVE AllNodes(_)
AllNodes(n) ==
    { NodeFields(n) }
    \cup UNION { Only({ IF a.st # "ok" THEN {}
                        ELSE AllNodes(ChildNode(a.node, i - 1))
                        : a \in { access_child(n, i - 1) } })
                 : i \in DOMAIN n.children }

\* C34: after a remove that returns an entry, updated holds the id of every
\* node of the tree whose keys, values, children or children_keys are not
\* what they were before the call, and holds no id the call deallocated.
C34_RemoveMarks ==
    [][RemoveReturns =>
         /\ \A x \in AllNodes(root)' : x \notin AllNodes(root) => x.id \in updated'
         /\ (freed' \ freed) \cap updated' = {}]_vars

\* The first call on the tall tree was a remove that returned an entry and
\* deallocated a node (case 2c).
C34_Witness ==
    /\ status = "ok"
    /\ last.op = "remove_entry"
    /\ last.st = "ok"
    /\ last.res # None
    /\ calls = MaxCalls - TallCalls + 1
    /\ freed # {}
    /\ updated # {}

\* C35: insert_no_update(k, v) leaves updated as it was, also when it
\* replaces a full root or splits children on the way down, and it returns
\* what insert(k, v) returns on the same tree and leaves the same len and
\* the same stored pairs.
C35_InsertNoUpdate ==
    [][\A k \in CallerBlocks, v \in CallerVals :
         (status = "ok" /\ calls' = calls + 1
          /\ last'.op = "insert_no_update" /\ last'.k = k /\ last'.v = v)
         => /\ updated' = updated
            /\ \E r \in { TreeInsert(Tree, k, v, TRUE) } :
                  /\ last'.st = r.t.st
                  /\ last'.res = r.res
                  /\ len' = r.t.len
                  /\ \A j \in Blocks :
                        GetKeyValue(j)' = NodeGet(r.t.root, j).res]_vars

\* C36: remove_entry_no_update(k) leaves updated as it was, whether k is
\* stored or not, and it returns what remove_entry(k) returns and leaves
\* the same len and the same stored pairs.
C36_RemoveNoUpdate ==
    [][\A k \in CallerBlocks :
         (status = "ok" /\ calls' = calls + 1
          /\ last'.op = "remove_entry_no_update" /\ last'.k = k)
         => /\ updated' = updated
            /\ last'.st = "ok"
            /\ last'.res = GetKeyValue(k)
            /\ len' = (IF GetKeyValue(k) = None THEN len ELSE len - 1)
            /\ GetKeyValue(k)' = None
            /\ \A j \in Blocks \ {k} : GetKeyValue(j)' = GetKeyValue(j)]_vars

\* ------------------------------------------------------------------ C37
\* A leaf of the parent that split_child is applied to.
SplitVal(k, off) == ((k + off) % MaxVal) + 1

SplitKeyOf(id) == 4 * DEFAULT_DEGREE * DEFAULT_DEGREE + 4 + id

SplitLeaf(id, ks, off) ==
    [id |-> id, keys |-> ks,
     vals |-> [x \in DOMAIN ks |-> SplitVal(ks[x], off)],
     children |-> << >>, children_keys |-> << >>]

\* Child i of the parent, with s keys; internal when inner, its children
\* then being leaves of one key each.  The keys of the subtree lie between
\* the parent's keys i - 1 and i.
SplitChildOf(i, s, inner, off) ==
    LET stride == 4 * DEFAULT_DEGREE + 2
        first == 2 * DEFAULT_DEGREE + 2 * DEFAULT_DEGREE * i
        ks == [j \in 1 .. s |-> stride * i + 2 * j]
        me == SplitLeaf(1 + i, ks, off)
    IN  IF inner
        THEN [me EXCEPT
                !.children = [j \in 1 .. (s + 1) |->
                    Loaded(SplitLeaf(first + j - 1,
                                     << stride * i + 2 * j - 1 >>, off))],
                !.children_keys = [j \in 1 .. (s + 1) |->
                                     SplitKeyOf(first + j - 1)]]
        ELSE me

\* A parent of p keys whose child idx is full, the others having sz[i]
\* keys.
SplitParent(p, idx, sz, inner, off) ==
    LET stride == 4 * DEFAULT_DEGREE + 2
        ks == [i \in 1 .. p |-> stride * i - 1]
        size(i) == IF i = idx THEN 2 * DEFAULT_DEGREE - 1 ELSE sz[i]
    IN  [id |-> 0, keys |-> ks,
         vals |-> [x \in DOMAIN ks |-> SplitVal(ks[x], off)],
         children |-> [i \in 1 .. (p + 1) |->
                         Loaded(SplitChildOf(i - 1, size(i - 1), inner, off))],
         children_keys |-> [i \in 1 .. (p + 1) |-> SplitKeyOf(i)]]

RECURSIVE NodeCount(_)
NodeCount(n) ==
    Len(n.keys)
    + (IF n.children = << >> THEN 0
       ELSE LET RECURSIVE Sum(_)
                Sum(i) == IF i = 0 THEN 0
                          ELSE Sum(i - 1)
                               + (IF n.children[i].tag = "Loaded"
                                  THEN NodeCount(n.children[i].node)
                                  ELSE 0)
            IN  Sum(Len(n.children)))

\* The tree is a non-full parent with a full child, of height 2 or 3.
InitSplit ==
    /\ degree = DEFAULT_DEGREE
    /\ storage = [i \in Ids |-> NoFile]
    /\ meta_id = 1
    /\ \E p \in 1 .. (2 * DEFAULT_DEGREE - 2), inner \in BOOLEAN,
          off \in CallerVals :
         \E idx \in 0 .. p,
            sz \in [0 .. p -> (DEFAULT_DEGREE - 1) .. (2 * DEFAULT_DEGREE - 2)] :
            /\ root = SplitParent(p, idx, sz, inner, off)
            /\ last = [op |-> "new", k |-> idx, v |-> 0, res |-> None,
                       st |-> "ok",
                       next |-> 4 * DEFAULT_DEGREE * DEFAULT_DEGREE]
    /\ len = NodeCount(root)
    /\ updated = {}
    /\ updated_blocks = {}
    /\ in_flight_blocks = EmptyMap
    /\ cached_keys = EmptyMap
    /\ next_id = 4 * DEFAULT_DEGREE * DEFAULT_DEGREE
    /\ freed = {}
    /\ rng = SplitKeyOf(4 * DEFAULT_DEGREE * DEFAULT_DEGREE)
    /\ status = "ok"
    /\ shadow = EmptyMap
    /\ pristine = TRUE
    /\ calls = 0
    /\ persisted = [valid |-> FALSE]
    /\ other = [i \in Ids |-> NoFile]
    /\ exported = [valid |-> FALSE]
    /\ epoch = NoEpoch

\* split_child(idx) on the root, for a hydrated full child idx.
SplitChild ==
    /\ Ready
    /\ \E idx \in 0 .. Len(root.keys), for_update \in BOOLEAN :
         /\ root.children[idx + 1].tag = "Loaded"
         /\ NodeIsFull(ChildNode(root, idx))
         /\ \E r \in { split_child(root, idx, for_update,
                                   [updated |-> updated, next_id |-> next_id,
                                    rng |-> rng]) } :
              /\ root' = r.node
              /\ updated' = r.updated
              /\ next_id' = r.next_id
              /\ rng' = r.rng
              /\ status' = IF r.st \in {"panic", "assert"} THEN "panic"
                            ELSE "ok"
              /\ Called("split_child", idx, 0, None, r.st)
    /\ UNCHANGED << len, degree, updated_blocks, in_flight_blocks, cached_keys,
                    meta_id, storage, freed, shadow, pristine, persisted,
                    other, exported, epoch >>

SpecSplit == InitSplit /\ [][SplitChild]_vars

\* How often the pair (k, v) is stored in the hydrated nodes under n.
RECURSIVE PairCount(_, _, _)
PairCount(n, k, v) ==
    Cardinality({ i \in DOMAIN n.keys : n.keys[i] = k /\ n.vals[i] = v })
    + (IF n.children = << >> THEN 0
       ELSE LET RECURSIVE Sum(_)
                Sum(i) == IF i = 0 THEN 0
                          ELSE Sum(i - 1)
                               + (IF n.children[i].tag = "Loaded"
                                  THEN PairCount(n.children[i].node, k, v)
                                  ELSE 0)
            IN  Sum(Len(n.children)))

\* The vector s with x inserted at the 0-based index idx.
Inserted(s, idx, x) ==
    [j \in 1 .. (Len(s) + 1) |->
       IF j <= idx THEN s[j] ELSE IF j = idx + 1 THEN x ELSE s[j - 1]]

\* C37: split_child(idx) on a non-full parent whose child idx holds 2t-1
\* keys returns Ok; the left node keeps its id, its first t-1 keys and
\* values and (when internal) its first t children and their keys; the
\* right node has a fresh id and the last t-1 keys and values and the last
\* t children and their keys; the median pair moves into the parent at idx;
\* the right node is a Loaded child at idx+1 under a fresh key, every other
\* child and child key of the parent, children_keys[idx] among them, is as
\* before; and every pair is stored as often as before.
C37_SplitChild ==
    [][\A idx \in 0 .. (2 * DEFAULT_DEGREE - 2) :
         (Ready /\ calls' = calls + 1 /\ last'.op = "split_child"
          /\ last'.k = idx /\ ~NodeIsFull(root))
         => \E left \in { ChildNode(root, idx) }, t \in { degree } :
            \E l2 \in { ChildNode(root', idx) },
               r2 \in { ChildNode(root', idx + 1) } :
              /\ last'.st = "ok"
              /\ l2.id = left.id
              /\ l2.keys = SubSeq(left.keys, 1, t - 1)
              /\ l2.vals = SubSeq(left.vals, 1, t - 1)
              /\ l2.children = (IF NodeIsLeaf(left) THEN << >>
                    ELSE SubSeq(left.children, 1, t))
              /\ l2.children_keys = (IF NodeIsLeaf(left) THEN << >>
                    ELSE SubSeq(left.children_keys, 1, t))
              /\ r2.id \notin TreeIds(root)
              /\ r2.keys = SubSeq(left.keys, t + 1, 2 * t - 1)
              /\ r2.vals = SubSeq(left.vals, t + 1, 2 * t - 1)
              /\ r2.children = (IF NodeIsLeaf(left) THEN << >>
                    ELSE SubSeq(left.children, t + 1, 2 * t))
              /\ r2.children_keys = (IF NodeIsLeaf(left) THEN << >>
                    ELSE SubSeq(left.children_keys, t + 1, 2 * t))
              /\ root'.id = root.id
              /\ root'.keys = Inserted(root.keys, idx, left.keys[t])
              /\ root'.vals = Inserted(root.vals, idx, left.vals[t])
              /\ root'.children[idx + 2] = Loaded(r2)
              /\ \A j \in DOMAIN root.children \ {idx + 1} :
                    root'.children[IF j <= idx THEN j ELSE j + 1]
                       = root.children[j]
              /\ root'.children_keys[idx + 2]
                    \notin { s.key : s \in Slots(root) }
              /\ \A j \in DOMAIN root.children_keys :
                    root'.children_keys[IF j <= idx + 1 THEN j ELSE j + 1]
                       = root.children_keys[j]
              /\ Len(root'.children) = Len(root.children) + 1
              /\ Len(root'.children_keys) = Len(root.children_keys) + 1
              /\ \A k \in 0 .. ((4 * DEFAULT_DEGREE + 2) * (2 * DEFAULT_DEGREE - 1)),
                    v \in CallerVals :
                    PairCount(root', k, v) = PairCount(root, k, v)]_vars

\* split_child has split an internal child in the middle of its parent.
C37_Witness ==
    /\ status = "ok"
    /\ last.op = "split_child"
    /\ last.st = "ok"
    /\ last.k = 1
    /\ Len(root.keys) = 3
    /\ ChildNode(root, 1).children # << >>
    /\ ChildNode(root, 2).children # << >>
    /\ ChildNode(root, 2).id = last.next

\* C38: after load returns Ok, derive(b) gives, for every block b the
\* loaded tree stores, the key the loaded tree stores for b, and not a key
\* that an earlier derive left in cached_keys.
C38_LoadDerive ==
    [][(status = "ok" /\ calls' = calls + 1 /\ last'.op = "load"
        /\ last'.st = "ok") =>
         \A b \in Blocks :
            (NodeGet(root, b)'.st = "ok" /\ NodeGet(root, b)'.res # None)
            => DeriveNow(b)' = NodeGet(root, b)'.res[1][2]]_vars

\* C39: when load returns an error, root, len, degree, updated,
\* updated_blocks and in_flight_blocks are as they were before the call.
C39_LoadError ==
    [][(status = "ok" /\ calls' = calls + 1 /\ last'.op = "load"
        /\ last'.st = "err") =>
         /\ root' = root
         /\ len' = len
         /\ degree' = degree
         /\ updated' = updated
         /\ updated_blocks' = updated_blocks
         /\ in_flight_blocks' = in_flight_blocks]_vars

\* load has returned an error to a tree that has marked nodes and derived
\* keys in flight.
C39_Witness ==
    /\ status = "ok"
    /\ last.op = "load"
    /\ last.st = "err"
    /\ updated # {}
    /\ MapKeys(in_flight_blocks) # {}
    /\ len > 0

\* ------------------------------------------------------------------ C40
\* C40: no call fails one of the structural assertions: the node that
\* insert_nonfull is entered on and the parent that split_child is called
\* on are not full, and the predecessor that case 2c of remove has merged
\* holds exactly 2t-1 keys.
C40_AssertionsHold ==
    [][calls' = calls + 1 => last'.st # "assert"]_vars

\* insert_no_update has replaced a full root, split the old one and gone
\* down from the new one, in a tree that case 2c of remove has merged two
\* nodes of before.
C40_Witness ==
    /\ status = "ok"
    /\ last.op = "insert_no_update"
    /\ last.st = "ok"
    /\ next_id = last.next + 2
    /\ freed # {}
    /\ ~NodeIsLeaf(root)

====
